---- MODULE Spec2Model ----
(***************************************************************************)
(* Model of the ctrl controller runtime (package ctrl / process).          *)
(*                                                                         *)
(* Generic.Run is the staged runtime: it starts the informers and waits    *)
(* for their caches, starts the controllers and waits for their readiness  *)
(* gates, starts the workers, waits for the cancellation of its context,   *)
(* and then runs its deferred calls: queue.shutDown() first and            *)
(* stgr.Shutdown() second (defers run last-in first-out).                  *)
(*                                                                         *)
(* stager (github.com/ash2k/stager) keeps a list of stages; every stage    *)
(* owns a context derived from context.Background() and a wait group.      *)
(* Shutdown() walks the list backwards and, stage by stage, cancels the    *)
(* stage's context and waits for the stage's goroutines.                   *)
(*                                                                         *)
(* The work queue wrapper (workQueue, gvkQueue) and the worker loop        *)
(* (Generic.worker) are modelled from their contract in the design         *)
(* document, sections 4.1 and 4.5.                                         *)
(***************************************************************************)
EXTENDS Naturals, Integers, Sequences, FiniteSets, TLC

\* ---------------------------------------------------------------- bounds
NumControllers == 2
ExtraInformers == 1
NumWorkers == 2
NumNames == 1
MaxFailures == 2
MaxAdds == 2
NumGvks == 2
NumConstructors == 2
BaseDelay == 1
BucketBurst == 2
BucketInterval == 3
MaxDebt == 2
NumNamespaces == 2
MaxCandidates == 2
MaxEvents == 2
NumPanicValues == 6
MaxGuards == 3
NumOtherCandidates == 1
MaxSignals == 3
MaxArgs == 4
NumServers == 3
NumInformerValues == 2
MaxFactoryCalls == 2
MaxWraps == 3

\* GVKs with a controller binding (Generic.Controllers), GVKs with an
\* informer (Generic.Informers): a constructor may register informers for
\* further GVKs, so Informers is a superset of Controllers.
Controllers == 1..NumControllers
Informers == 1..(NumControllers + ExtraInformers)
Workers == 1..NumWorkers
Names == 1..NumNames

\* gvkQueueKey: the payload of the shared queue, (gvk, QueueKey).
TypedKeys == Controllers \X Names

VARIABLES
    pc,           \* position of Generic.Run
    ctxDone,      \* the ctx passed to Run is cancelled
    retErr,       \* what Run returns: "none" (not yet), "nil", "Canceled"
    stages,       \* number of stages created with stgr.NextStage()
    sd,           \* stager.Shutdown: index of the stage being torn down
    syncWait,     \* informers the cache-sync loop has not passed yet
    readyWait,    \* controllers the readiness loop has not passed yet
    inf,          \* informer goroutine: "idle", "running", "stopped"
    synced,       \* inf.HasSynced()
    stopCh,       \* stage 1 context cancelled (stop channel of inf.Run)
    ctl,          \* controller run loop: "idle", "running", "stopped"
    ready,        \* readyForWork channel closed
    runCtxDone,   \* stage 2 context cancelled (ctx of Cntrlr.Run)
    wpc,          \* worker: "idle", "get", "process", "done", "exited"
    wkey,         \* key the worker holds
    wres,         \* result of the last Process, until Done: ProcessResults
    q,            \* the rate limited, deduplicating queue
    observe,      \* history is recorded (fixed by the initial state)
    burst,        \* history: Adds of a key in the current burst (0: none)
    inflightAdds, \* history: Adds of a key during the current attempt
    owed,         \* history: Done has followed an attempt with Adds
    deliv,        \* history: deliveries of a key since its burst or Done
    cancelledEarly, \* history: ctx was cancelled while an informer was unsynced
    lateAdd,      \* history: keys added to the queue after its shutDown
    ng,           \* NewGeneric: the construction in progress
    crh,          \* ControlledResourceHandler: the event being handled
    rl,           \* the rate limiter of the queue
    evh,          \* GenericHandler, LookupHandler: the event being handled
    lsp,          \* LogStructuredPanic: the guarded call
    app,          \* App.Run with leader election
    sig,          \* CancelOnInterrupt: the signal goroutine
    vf,           \* ValidateFlags: the argument list being validated
    cx,           \* Context: the informer registrations of a controller
    srv,          \* Generic.Run: the server stage
    mn            \* Main: the run of the main function

vars == <<pc, ctxDone, retErr, stages, sd, syncWait, readyWait, inf, synced,
          stopCh, ctl, ready, runCtxDone, wpc, wkey, wres, q, observe, burst,
          inflightAdds, owed, deliv, cancelledEarly, lateAdd, ng, crh, rl,
          evh, lsp, app, sig, vf, cx, srv, mn>>

\* The components that are exercised on their own, outside Run.
lateVars == <<cx, srv, mn>>
moreVars == <<evh, lsp, app, sig, vf, lateVars>>
compVars == <<ng, crh, rl, moreVars>>

runVars == <<pc, retErr, stages, sd, syncWait, readyWait>>
infVars == <<inf, synced, stopCh>>
ctlVars == <<ctl, ready, runCtxDone>>
wrkVars == <<wpc, wkey, wres>>
histVars == <<observe, burst, inflightAdds, owed, deliv>>

NoKey == <<0, 0>>

Min(a, b) == IF a < b THEN a ELSE b

\* ------------------------------------------------------------ the queue
\* Number of times key k occurs in the sequence s.
RECURSIVE Count(_, _)
Count(s, k) ==
    IF s = <<>> THEN 0
    ELSE (IF Head(s) = k THEN 1 ELSE 0) + Count(Tail(s), k)

InQueue(qq, k) == Count(qq.queue, k) > 0

\* Deliveries of k that are scheduled and not yet handed to a worker by an
\* Add: its deduplication window or its place in the queue.
Scheduled(qq, k) == Count(qq.queue, k) + (IF k \in qq.waiting THEN 1 ELSE 0)

EmptyQueue ==
    [waiting |-> {}, backoff |-> {}, queue |-> <<>>, dirty |-> {},
     processing |-> {}, shuttingDown |-> FALSE,
     failures |-> [k \in TypedKeys |-> 0]]

\* Mutant of Insert: an in-flight key is appended like an idle one.
InsertInFlight(qq, k) ==
    IF qq.shuttingDown THEN qq
    ELSE IF InQueue(qq, k) THEN qq
    ELSE [qq EXCEPT !.queue = Append(@, k)]

\* The queue's insertion once a delay has elapsed: an in-flight key is marked
\* dirty, a pending key is left alone, an idle key is appended.
Insert(qq, k) ==
    IF qq.shuttingDown THEN qq
    ELSE IF k \in qq.processing THEN [qq EXCEPT !.dirty = @ \cup {k}]
    ELSE IF InQueue(qq, k) THEN qq
    ELSE [qq EXCEPT !.queue = Append(@, k)]

\* Mutant of QueueAdd: keys are compared by (namespace, name) only, across
\* the partitions.
QueueAddByName(qq, k) ==
    LET same == {j \in TypedKeys : j[2] = k[2]} IN
    IF qq.shuttingDown THEN qq
    ELSE IF same \cap qq.processing # {}
    THEN [qq EXCEPT !.dirty = @ \cup (same \cap qq.processing)]
    ELSE IF \E j \in same : j \in qq.waiting \/ InQueue(qq, j) THEN qq
    ELSE [qq EXCEPT !.waiting = @ \cup {k}]

\* Mutant of QueueAdd: an Add after ShutDown is scheduled like any other.
QueueAddAfterShutDown(qq, k) ==
    IF k \in qq.processing THEN [qq EXCEPT !.dirty = @ \cup {k}]
    ELSE IF k \in qq.waiting \/ InQueue(qq, k) THEN qq
    ELSE [qq EXCEPT !.waiting = @ \cup {k}]

\* Mutant of QueueAdd: a pending key is scheduled again.
QueueAddNoDedup(qq, k) ==
    IF qq.shuttingDown THEN qq
    ELSE IF k \in qq.processing THEN [qq EXCEPT !.dirty = @ \cup {k}]
    ELSE [qq EXCEPT !.waiting = @ \cup {k}]

\* gvkQueue.Add(key).
QueueAdd(qq, k) ==
    IF qq.shuttingDown THEN qq
    ELSE IF k \in qq.processing THEN [qq EXCEPT !.dirty = @ \cup {k}]
    ELSE IF k \in qq.waiting \/ InQueue(qq, k) THEN qq
    ELSE [qq EXCEPT !.waiting = @ \cup {k}]

\* The deduplication window of k elapses.
QueueWindowElapsed(qq, k) ==
    Insert([qq EXCEPT !.waiting = @ \ {k}], k)

\* The backoff delay of k elapses.
QueueBackoffElapsed(qq, k) ==
    Insert([qq EXCEPT !.backoff = @ \ {k}], k)

\* workQueue.get() when a key is available: the head becomes in-flight.
QueueGet(qq) ==
    [qq EXCEPT !.queue = Tail(@), !.processing = @ \cup {Head(qq.queue)}]

\* Mutant of QueueDone: the dirty mark is dropped without a re-queue.
QueueDoneDropsDirty(qq, k) ==
    [qq EXCEPT !.processing = @ \ {k}, !.dirty = @ \ {k}]

\* workQueue.done(key).
QueueDone(qq, k) ==
    IF k \in qq.dirty
    THEN [qq EXCEPT !.processing = @ \ {k}, !.dirty = @ \ {k},
                    !.queue = Append(@, k)]
    ELSE [qq EXCEPT !.processing = @ \ {k}]

\* Mutant of QueueAddRateLimited: a key is given up after MaxFailures retries.
QueueAddRateLimitedGiveUp(qq, k) ==
    LET counted == [qq EXCEPT !.failures[k] = Min(@ + 1, MaxFailures)]
    IN  IF qq.shuttingDown \/ qq.failures[k] >= MaxFailures THEN counted
        ELSE [counted EXCEPT !.backoff = @ \cup {k}]

\* workQueue.retry(key): AddRateLimited.
QueueAddRateLimited(qq, k) ==
    LET counted == [qq EXCEPT !.failures[k] = Min(@ + 1, MaxFailures)]
    IN  IF qq.shuttingDown THEN counted
        ELSE [counted EXCEPT !.backoff = @ \cup {k}]

\* workQueue.forget(key).
QueueForget(qq, k) == [qq EXCEPT !.failures[k] = 0]

\* workQueue.shutDown().
QueueShutDown(qq) ==
    [qq EXCEPT !.shuttingDown = TRUE, !.waiting = {}, !.backoff = {}]

\* ----------------------------------------------------------------- Init
\* The components exercised on their own are idle while Run is exercised.
NgIdle == [at |-> "idle"]
CrhIdle == [at |-> "idle"]
RlIdle == [at |-> "idle"]

EvhIdle == [at |-> "idle"]
LspIdle == [at |-> "idle"]
AppIdle == [at |-> "idle"]
SigIdle == [at |-> "idle"]
VfIdle == [at |-> "idle"]
CxIdle == [at |-> "idle"]
SrvIdle == [at |-> "idle"]
MnIdle == [at |-> "idle"]

LateIdle == cx = CxIdle /\ srv = SrvIdle /\ mn = MnIdle

MoreIdle ==
    /\ evh = EvhIdle /\ lsp = LspIdle /\ app = AppIdle /\ sig = SigIdle
    /\ vf = VfIdle /\ LateIdle

CompIdle == ng = NgIdle /\ crh = CrhIdle /\ rl = RlIdle /\ MoreIdle

\* The state when Run is called; the history is recorded iff obs.
InitWith(obs) ==
    /\ pc = "start"
    /\ ctxDone = FALSE
    /\ retErr = "none"
    /\ stages = 0
    /\ sd = 0
    /\ syncWait = {}
    /\ readyWait = {}
    /\ inf = [i \in Informers |-> "idle"]
    /\ synced = [i \in Informers |-> FALSE]
    /\ stopCh = FALSE
    /\ ctl = [c \in Controllers |-> "idle"]
    /\ ready = [c \in Controllers |-> FALSE]
    /\ runCtxDone = FALSE
    /\ wpc = [w \in Workers |-> "idle"]
    /\ wkey = [w \in Workers |-> NoKey]
    /\ wres = [w \in Workers |-> "none"]
    /\ q = EmptyQueue
    /\ observe = obs
    /\ burst = [k \in TypedKeys |-> 0]
    /\ inflightAdds = [k \in TypedKeys |-> 0]
    /\ owed = [k \in TypedKeys |-> 0]
    /\ deliv = [k \in TypedKeys |-> 0]
    /\ cancelledEarly = FALSE
    /\ lateAdd = {}

Init == InitWith(FALSE) /\ CompIdle

\* ------------------------------------------------------------ Generic.Run
\* stgr.NextStage(); stage.StartWithChannel(inf.Run) for every informer.
RunStartInformers ==
    /\ pc = "start"
    /\ stages' = 1
    /\ inf' = [i \in Informers |-> "running"]
    /\ syncWait' = Informers
    /\ pc' = "waitSync"
    /\ UNCHANGED <<ctxDone, retErr, sd, readyWait, synced, stopCh, ctlVars,
                   wrkVars, q, histVars, cancelledEarly,
                   lateAdd, compVars>>

\* Mutant of CacheSyncTrue: the wait is satisfied by any synced informer.
CacheSyncTrueAny(i) == \E j \in Informers : synced[j]

\* cache.WaitForCacheSync(ctx.Done(), inf.HasSynced) can return true: a poll
\* found the informer synced.
CacheSyncTrue(i) == synced[i]

\* Mutant of CacheSyncFalse: the wait ignores the stop channel.
CacheSyncNeverStops == FALSE

\* cache.WaitForCacheSync(ctx.Done(), inf.HasSynced) can return false: the
\* stop channel is closed.  When the informer is synced and the channel is
\* closed, either result is possible.
CacheSyncFalse == ctxDone

\* The loop over g.Informers passes informer i (map iteration order is not
\* fixed, so any remaining informer may be the current one).
RunCacheSynced(i) ==
    /\ pc = "waitSync"
    /\ i \in syncWait
    /\ CacheSyncTrue(i)
    /\ syncWait' = syncWait \ {i}
    /\ pc' = IF syncWait' = {} THEN "startControllers" ELSE "waitSync"
    /\ UNCHANGED <<ctxDone, retErr, stages, sd, readyWait, infVars, ctlVars,
                   wrkVars, q, histVars, cancelledEarly,
                   lateAdd, compVars>>

\* if !cache.WaitForCacheSync(...) { return ctx.Err() }
RunCacheSyncCancelled ==
    /\ pc = "waitSync"
    /\ syncWait # {}
    /\ CacheSyncFalse
    /\ retErr' = "Canceled"
    /\ pc' = "shutDown"
    /\ UNCHANGED <<ctxDone, stages, sd, syncWait, readyWait, infVars, ctlVars,
                   wrkVars, q, histVars, cancelledEarly,
                   lateAdd, compVars>>

\* stgr.NextStage(); stage.StartWithContext(c.Cntrlr.Run) for every
\* controller.
RunStartControllers ==
    /\ pc = "startControllers"
    /\ stages' = 2
    /\ ctl' = [c \in Controllers |-> "running"]
    /\ readyWait' = Controllers
    /\ pc' = "waitReady"
    /\ UNCHANGED <<ctxDone, retErr, sd, syncWait, infVars, ready, runCtxDone,
                   wrkVars, q, histVars, cancelledEarly,
                   lateAdd, compVars>>

\* Mutant of ReadyCase: the select receives from the gate of any controller.
ReadyCaseAny(c) == \E d \in Controllers : ready[d]

\* select: case <-c.ReadyForWork can be taken.
ReadyCase(c) == ready[c]

\* select: case <-ctx.Done() can be taken.
DoneCase == ctxDone

\* The loop over g.Controllers passes controller c.
RunControllerReady(c) ==
    /\ pc = "waitReady"
    /\ c \in readyWait
    /\ ReadyCase(c)
    /\ readyWait' = readyWait \ {c}
    /\ pc' = IF readyWait' = {} THEN "startWorkers" ELSE "waitReady"
    /\ UNCHANGED <<ctxDone, retErr, stages, sd, syncWait, infVars, ctlVars,
                   wrkVars, q, histVars, cancelledEarly,
                   lateAdd, compVars>>

\* case <-ctx.Done(): return ctx.Err()
RunReadyCancelled ==
    /\ pc = "waitReady"
    /\ readyWait # {}
    /\ DoneCase
    /\ retErr' = "Canceled"
    /\ pc' = "shutDown"
    /\ UNCHANGED <<ctxDone, stages, sd, syncWait, readyWait, infVars, ctlVars,
                   wrkVars, q, histVars, cancelledEarly,
                   lateAdd, compVars>>

\* stgr.NextStage(); stage.Start(g.worker), g.workers times.
RunStartWorkers ==
    /\ pc = "startWorkers"
    /\ stages' = 3
    /\ wpc' = [w \in Workers |-> "get"]
    /\ pc' = "running"
    /\ UNCHANGED <<ctxDone, retErr, sd, syncWait, readyWait, infVars, ctlVars,
                   wkey, wres, q, histVars, cancelledEarly,
                   lateAdd, compVars>>

\* len(g.Servers) == 0: <-ctx.Done(); return ctx.Err()
RunCancelled ==
    /\ pc = "running"
    /\ ctxDone
    /\ retErr' = "Canceled"
    /\ pc' = "shutDown"
    /\ UNCHANGED <<ctxDone, stages, sd, syncWait, readyWait, infVars, ctlVars,
                   wrkVars, q, histVars, cancelledEarly,
                   lateAdd, compVars>>

\* defer g.queue.shutDown(): the deferred call registered last runs first.
RunQueueShutDown ==
    /\ pc = "shutDown"
    /\ q' = QueueShutDown(q)
    /\ sd' = stages
    /\ pc' = "cancelStage"
    /\ UNCHANGED <<ctxDone, retErr, stages, syncWait, readyWait, infVars,
                   ctlVars, wrkVars, histVars, cancelledEarly,
                   lateAdd, compVars>>

\* stager.Shutdown: st.cancel() of stage sd.  Stage 1 runs the informers,
\* stage 2 the controllers, stage 3 the workers (which take no context).
StagerCancel ==
    /\ pc = "cancelStage"
    /\ stopCh' = (stopCh \/ sd = 1)
    /\ runCtxDone' = (runCtxDone \/ sd = 2)
    /\ pc' = "waitStage"
    /\ UNCHANGED <<ctxDone, retErr, stages, sd, syncWait, readyWait, inf,
                   synced, ctl, ready, wrkVars, q, histVars, cancelledEarly,
                   lateAdd, compVars>>

\* Mutant of StageDone: Shutdown does not wait for the stage's goroutines.
StageDoneNoWait(s) == TRUE

\* The goroutines of stage s have all returned.
StageDone(s) ==
    CASE s = 1 -> \A i \in Informers : inf[i] = "stopped"
      [] s = 2 -> \A c \in Controllers : ctl[c] = "stopped"
      [] s = 3 -> \A w \in Workers : wpc[w] = "exited"

\* stager.Shutdown: st.wg.Wait() of stage sd, then the next older stage;
\* after the oldest stage Run returns.
StagerWait ==
    /\ pc = "waitStage"
    /\ StageDone(sd)
    /\ sd' = sd - 1
    /\ pc' = IF sd' = 0 THEN "returned" ELSE "cancelStage"
    /\ UNCHANGED <<ctxDone, retErr, stages, syncWait, readyWait, infVars,
                   ctlVars, wrkVars, q, histVars, cancelledEarly,
                   lateAdd, compVars>>

\* The caller cancels the context passed to Run.
Cancel ==
    /\ ~ctxDone
    /\ ctxDone' = TRUE
    /\ cancelledEarly' = (\E i \in Informers : ~synced[i])
    /\ UNCHANGED <<runVars, infVars, ctlVars, wrkVars, q, histVars, lateAdd,
                   compVars>>

\* ------------------------------------------------------------- informers
\* The informer's initial list completes: HasSynced() turns true.
InformerSync(i) ==
    /\ inf[i] = "running"
    /\ ~synced[i]
    /\ synced' = [synced EXCEPT ![i] = TRUE]
    /\ UNCHANGED <<runVars, ctxDone, inf, stopCh, ctlVars, wrkVars, q,
                   histVars, cancelledEarly,
                   lateAdd, compVars>>

\* inf.Run(stopCh) returns once its stop channel is closed.
InformerExit(i) ==
    /\ inf[i] = "running"
    /\ stopCh
    /\ inf' = [inf EXCEPT ![i] = "stopped"]
    /\ UNCHANGED <<runVars, ctxDone, synced, stopCh, ctlVars, wrkVars, q,
                   histVars, cancelledEarly,
                   lateAdd, compVars>>

\* ----------------------------------------------------------- controllers
\* The controller calls Context.ReadyForWork from its Run: close(readyForWork).
ControllerReady(c) ==
    /\ ctl[c] = "running"
    /\ ~ready[c]
    /\ ready' = [ready EXCEPT ![c] = TRUE]
    /\ UNCHANGED <<runVars, ctxDone, infVars, ctl, runCtxDone, wrkVars, q,
                   histVars, cancelledEarly,
                   lateAdd, compVars>>

\* Cntrlr.Run(ctx) returns once its context is cancelled.
ControllerExit(c) ==
    /\ ctl[c] = "running"
    /\ runCtxDone
    /\ ctl' = [ctl EXCEPT ![c] = "stopped"]
    /\ UNCHANGED <<runVars, ctxDone, infVars, ready, runCtxDone, wrkVars, q,
                   histVars, cancelledEarly,
                   lateAdd, compVars>>

\* ---------------------------------------------------- history bookkeeping
\* Nothing is scheduled, retried or in flight for k.
Quiescent(qq, k) ==
    /\ k \notin (qq.waiting \cup qq.backoff \cup qq.processing \cup qq.dirty)
    /\ ~InQueue(qq, k)

\* The history of key k becomes: b Adds in its burst, a Adds in its attempt,
\* o Adds owed a redelivery, d deliveries.
Note(k, b, a, o, d) ==
    /\ UNCHANGED observe
    /\ burst' = [burst EXCEPT ![k] = b]
    /\ inflightAdds' = [inflightAdds EXCEPT ![k] = a]
    /\ owed' = [owed EXCEPT ![k] = o]
    /\ deliv' = [deliv EXCEPT ![k] = d]

\* An accepted Add(k) falls into the current attempt of k, or starts a burst
\* (nothing was scheduled for k), or continues the current burst.
NoteAdd(k) ==
    IF ~observe \/ q.shuttingDown
    THEN UNCHANGED histVars
    ELSE IF k \in q.processing
    THEN Note(k, 0, Min(inflightAdds[k] + 1, MaxAdds), 0, 0)
    ELSE IF Quiescent(q, k)
    THEN Note(k, 1, 0, 0, 0)
    ELSE IF burst[k] >= 1
    THEN Note(k, Min(burst[k] + 1, MaxAdds), 0, owed[k], deliv[k])
    ELSE Note(k, 0, 0, 0, 0)

\* k is delivered to a worker.
NoteGet(k) ==
    IF ~observe
    THEN UNCHANGED histVars
    ELSE Note(k, burst[k], 0, owed[k],
              IF burst[k] >= 1 \/ owed[k] >= 1 THEN Min(deliv[k] + 1, 2) ELSE 0)

\* A retry of k is scheduled: further deliveries of k are due to it.
NoteRetry(k) ==
    IF ~observe
    THEN UNCHANGED histVars
    ELSE Note(k, 0, inflightAdds[k], 0, 0)

\* Done(k): the Adds of the attempt are owed a redelivery, when nothing else
\* is scheduled for k.
NoteDone(k) ==
    IF ~observe
    THEN UNCHANGED histVars
    ELSE IF /\ inflightAdds[k] >= 1
            /\ ~q.shuttingDown
            /\ k \notin (q.waiting \cup q.backoff)
    THEN Note(k, 0, 0, inflightAdds[k], 0)
    ELSE Note(k, burst[k], 0, 0, deliv[k])

\* ------------------------------------------------------------ event router
\* GenericHandler.OnAdd / OnUpdate / OnDelete of the handler that NewGeneric
\* attaches to the informer of the controller's GVK: g.add(metaObj) adds the
\* object's (namespace, name) to the queue partition of that GVK.
GenericHandlerEvent(k) ==
    /\ inf[k[1]] = "running"
    /\ q' = QueueAdd(q, k)
    /\ NoteAdd(k)
    /\ lateAdd' = IF q.shuttingDown THEN lateAdd \cup {k} ELSE lateAdd
    /\ UNCHANGED <<runVars, ctxDone, infVars, ctlVars, wrkVars,
                   cancelledEarly, compVars>>

\* ------------------------------------------------------------ queue timers
WindowElapsed(k) ==
    /\ k \in q.waiting
    /\ q' = QueueWindowElapsed(q, k)
    /\ UNCHANGED <<runVars, ctxDone, infVars, ctlVars, wrkVars, histVars,
                   cancelledEarly,
                   lateAdd, compVars>>

BackoffElapsed(k) ==
    /\ k \in q.backoff
    /\ q' = QueueBackoffElapsed(q, k)
    /\ UNCHANGED <<runVars, ctxDone, infVars, ctlVars, wrkVars, histVars,
                   cancelledEarly,
                   lateAdd, compVars>>

\* ------------------------------------------------------------- worker loop
ProcessResults == {"ok", "retriable", "terminal"}

\* g.queue.get() returns a key: the worker resolves the controller by the
\* key's GVK and calls its Process.
WorkerGet(w) ==
    /\ wpc[w] = "get"
    /\ q.queue # <<>>
    /\ LET k == Head(q.queue) IN
        /\ q' = QueueGet(q)
        /\ wkey' = [wkey EXCEPT ![w] = k]
        /\ NoteGet(k)
    /\ wpc' = [wpc EXCEPT ![w] = "process"]
    /\ UNCHANGED <<runVars, ctxDone, infVars, ctlVars, wres, cancelledEarly,
                   lateAdd, compVars>>

\* g.queue.get() reports shutdown: the worker returns.
WorkerGetShutdown(w) ==
    /\ wpc[w] = "get"
    /\ q.queue = <<>>
    /\ q.shuttingDown
    /\ wpc' = [wpc EXCEPT ![w] = "exited"]
    /\ UNCHANGED <<runVars, ctxDone, infVars, ctlVars, wkey, wres, q,
                   histVars, cancelledEarly,
                   lateAdd, compVars>>

\* Mutant of HandleCall: every error is retried.
HandleCallRetryAll(r) ==
    IF r = "ok" THEN "Forget" ELSE "AddRateLimited"

\* What the worker calls on the queue, before Done, for a result of Process.
HandleCall(r) ==
    CASE r = "ok" -> "Forget"
      [] r = "retriable" -> "AddRateLimited"
      [] OTHER -> "none"

\* Cntrlr.Process returns (retriable, err) = r and the worker applies the
\* retry policy to it.
WorkerProcess(w, r) ==
    /\ wpc[w] = "process"
    /\ LET k == wkey[w]
           c == HandleCall(r)
       IN  /\ q' = CASE c = "Forget" -> QueueForget(q, k)
                     [] c = "AddRateLimited" -> QueueAddRateLimited(q, k)
                     [] OTHER -> q
           /\ IF c = "AddRateLimited"
              THEN NoteRetry(k)
              ELSE UNCHANGED histVars
    /\ wres' = [wres EXCEPT ![w] = r]
    /\ wpc' = [wpc EXCEPT ![w] = "done"]
    /\ UNCHANGED <<runVars, ctxDone, infVars, ctlVars, wkey, cancelledEarly,
                   lateAdd, compVars>>

\* g.queue.done(key), then the next iteration of the worker loop.
WorkerDone(w) ==
    /\ wpc[w] = "done"
    /\ q' = QueueDone(q, wkey[w])
    /\ NoteDone(wkey[w])
    /\ wpc' = [wpc EXCEPT ![w] = "get"]
    /\ wkey' = [wkey EXCEPT ![w] = NoKey]
    /\ wres' = [wres EXCEPT ![w] = "none"]
    /\ UNCHANGED <<runVars, ctxDone, infVars, ctlVars, cancelledEarly,
                   lateAdd, compVars>>

\* ------------------------------------------------------- the specification
RunStep ==
    \/ RunStartInformers
    \/ \E i \in Informers : RunCacheSynced(i)
    \/ RunCacheSyncCancelled
    \/ RunStartControllers
    \/ \E c \in Controllers : RunControllerReady(c)
    \/ RunReadyCancelled
    \/ RunStartWorkers
    \/ RunCancelled
    \/ RunQueueShutDown
    \/ StagerCancel
    \/ StagerWait

WorkerStep(w) ==
    \/ WorkerGet(w)
    \/ WorkerGetShutdown(w)
    \/ \E r \in ProcessResults : WorkerProcess(w, r)
    \/ WorkerDone(w)

Next ==
    \/ RunStep
    \/ Cancel
    \/ \E i \in Informers : InformerSync(i)
    \/ \E i \in Informers : InformerExit(i)
    \/ \E c \in Controllers : ControllerReady(c)
    \/ \E c \in Controllers : ControllerExit(c)
    \/ \E k \in TypedKeys : GenericHandlerEvent(k)
    \/ \E k \in TypedKeys : WindowElapsed(k)
    \/ \E k \in TypedKeys : BackoffElapsed(k)
    \/ \E w \in Workers : WorkerStep(w)

Spec == Init /\ [][Next]_vars

\* The same program with the history of the keys recorded.
InitObserved == InitWith(TRUE) /\ CompIdle

SpecObserved == InitObserved /\ [][Next]_vars

\* Run, the workers, the informers and the controllers are scheduled fairly:
\* a goroutine that can take a step eventually takes one, an informer and a
\* controller return once their stop signal has fired, and a Process call
\* returns.  Nothing forces the caller to cancel, an informer to sync, a
\* controller to become ready or an event to arrive.
Fairness ==
    /\ WF_vars(RunStep)
    /\ \A w \in Workers : WF_vars(WorkerStep(w))
    /\ \A i \in Informers : WF_vars(InformerExit(i))
    /\ \A c \in Controllers : WF_vars(ControllerExit(c))

FairSpec == Spec /\ Fairness

\* ------------------------------------------------------------------ claims
AllSynced == \A i \in Informers : synced[i]
AllReady == \A c \in Controllers : ready[c]
InFlight(w) == wpc[w] \in {"process", "done"}

\* C1: no controller run loop (and so no worker) is started before every
\* registered informer has reported HasSynced = true.
C1_ControllersAfterSync ==
    ((\E c \in Controllers : ctl[c] # "idle") \/ (\E w \in Workers : wpc[w] # "idle")
        \/ stages >= 2)
    => AllSynced

\* Stage 2 has started, the informers having synced.
C1_Witness == pc = "waitReady" /\ readyWait = Controllers /\ AllSynced

\* C2: no worker is started, and no key is dispatched to Process, until
\* every controller has closed its readiness gate.
C2_WorkersAfterReady ==
    ((\E w \in Workers : wpc[w] # "idle") \/ stages >= 3) => AllReady

\* A worker is inside Process, every controller being ready.
C2_Witness == \E w \in Workers : wpc[w] = "process" /\ AllReady

\* C3: if the token is cancelled before every informer has synced, Run
\* returns the cancellation error and no controller run loop and no worker
\* was ever started.
C3_CancelBeforeSync ==
    cancelledEarly =>
        /\ \A c \in Controllers : ctl[c] = "idle"
        /\ \A w \in Workers : wpc[w] = "idle"
        /\ pc = "returned" => retErr = "Canceled"

\* C4: once the token is cancelled, no controller run loop and no worker is
\* started any more.
C4_NoStageAfterCancel ==
    [][ctxDone =>
        /\ \A c \in Controllers : ctl[c] = "idle" => ctl'[c] = "idle"
        /\ \A w \in Workers : wpc[w] = "idle" => wpc'[w] = "idle"]_vars

\* C5: teardown order.  The queue is shut down before any worker exits and
\* before any stage is cancelled; the controllers' context is cancelled only
\* when every worker has exited, so that no Process runs under a cancelled
\* controller context; the informers are stopped only when every controller
\* run loop has exited; Run returns after all of it.
C5_TeardownOrder ==
    /\ (\E w \in Workers : wpc[w] = "exited") => q.shuttingDown
    /\ runCtxDone =>
        /\ q.shuttingDown
        /\ \A w \in Workers : wpc[w] \in {"idle", "exited"}
    /\ stopCh =>
        /\ q.shuttingDown
        /\ \A w \in Workers : wpc[w] \in {"idle", "exited"}
        /\ \A c \in Controllers : ctl[c] \in {"idle", "stopped"}
        /\ stages >= 2 => runCtxDone
    /\ pc = "returned" =>
        /\ q.shuttingDown
        /\ stopCh
        /\ \A i \in Informers : inf[i] = "stopped"

\* Run has returned from the steady state: all three stages were torn down.
C5_Witness == pc = "returned" /\ stages = 3 /\ runCtxDone

\* C6: under Fairness, a cancellation in any stage makes Run return.
C6_CancelTerminates == ctxDone ~> (pc = "returned")

\* Run has returned after a cancellation that found the workers started.
C6_Witness == pc = "returned" /\ ctxDone /\ \A w \in Workers : wpc[w] = "exited"

\* C7: no two workers hold the same key between Get and Done, so at most
\* one worker executes Process for a key.
C7_OneAttemptPerKey ==
    \A w1, w2 \in Workers :
        (w1 # w2 /\ InFlight(w1) /\ InFlight(w2)) => wkey[w1] # wkey[w2]

\* A worker is inside Process for a key that was added again meanwhile,
\* while another worker waits in Get.
C7_Witness ==
    \E w1, w2 \in Workers :
        /\ wpc[w1] = "process" /\ wkey[w1] \in q.dirty
        /\ wpc[w2] = "get"

\* C8: when Adds of k arrived during an attempt, after Done(k) exactly one
\* delivery of k follows from them: it is scheduled once or has happened
\* once, and no dirty mark is left.
C8_OneRedelivery ==
    \A k \in TypedKeys :
        (owed[k] >= 1 /\ ~q.shuttingDown) =>
            /\ deliv[k] + Scheduled(q, k) = 1
            /\ k \notin q.dirty

\* Two Adds arrived during an attempt and the key was delivered again once.
C8_Witness == \E k \in TypedKeys : owed[k] = 2 /\ deliv[k] = 1

\* C9: the Adds of k issued from the moment k was idle until its delivery
\* yield exactly one delivery of k, and an Add for a pending key leaves the
\* queue as it is.
C9_OneDeliveryPerBurst ==
    /\ [](\A k \in TypedKeys :
            (burst[k] >= 1 /\ ~q.shuttingDown) =>
                deliv[k] + Scheduled(q, k) = 1)
    /\ [][\A k \in TypedKeys :
            (burst[k] >= 1 /\ burst'[k] > burst[k]) => q' = q]_vars

\* Two Adds of an idle key fell into one window and the key was delivered
\* once.
C9_Witness == \E k \in TypedKeys : burst[k] = 2 /\ deliv[k] = 1

\* C10: between Get and Done the worker calls Forget for a success,
\* AddRateLimited for a retriable error and nothing for a terminal error;
\* it then calls Done, once, which releases the key; a key dropped after a
\* terminal error with nothing else scheduled for it is idle.
C10_RetryPolicy ==
    /\ [](\A w \in Workers :
            /\ InFlight(w) => wkey[w] \in q.processing
            /\ ~InFlight(w) => wkey[w] = NoKey)
    /\ [][\A w \in Workers :
            LET k == wkey[w] IN
            /\ (wpc[w] = "process" /\ wpc'[w] = "done") =>
                /\ wres'[w] = "ok" => q' = [q EXCEPT !.failures[k] = 0]
                /\ wres'[w] = "retriable" =>
                    q' = [q EXCEPT
                            !.failures[k] = Min(@ + 1, MaxFailures),
                            !.backoff = IF q.shuttingDown THEN @
                                        ELSE @ \cup {k}]
                /\ wres'[w] = "terminal" => q' = q
            /\ (wpc[w] = "done" /\ wpc'[w] = "get") =>
                /\ k \notin q'.processing
                /\ (wres[w] = "terminal" /\ k \notin
                        (q.dirty \cup q.waiting \cup q.backoff))
                    => Quiescent(q', k)]_vars

\* One worker is about to call Done after a retriable error, another after
\* a terminal error.
C10_Witness ==
    \E w1, w2 \in Workers :
        /\ wpc[w1] = "done" /\ wres[w1] = "retriable"
        /\ wpc[w2] = "done" /\ wres[w2] = "terminal"

\* ------------------------------------------------------------- NewGeneric
\* The constructors passed to NewGeneric.  A constructor declares one GVK
\* (Describe), and its New builds a controller, a server, both or neither,
\* or fails; through the Context it registers informers for a set of GVKs
\* (RegisterInformer, or MainInformer which reuses a registered informer).
Gvks == 1..NumGvks
Builds == {"none", "controller", "server", "both"}
ConstructorInputs ==
    [gvk : Gvks, builds : Builds, fails : BOOLEAN, registers : SUBSET Gvks]
ConstructorLists == [1..NumConstructors -> ConstructorInputs]

\* The maps NewGeneric makes before its loop.
NgStart(cs) ==
    [at |-> "loop", constructors |-> cs, i |-> 1, informers |-> {},
     controllers |-> {}, servers |-> {}, handlers |-> {}, metrics |-> {},
     ret |-> "pending", err |-> "none",
     configLogger |-> <<>>, given |-> <<>>, runtimeLogger |-> <<>>,
     contexts |-> <<>>, attached |-> <<>>]

\* return nil, e.  An e of "none" is the nil error.
NgFail(n, e) == [n EXCEPT !.at = "done", !.ret = "nil", !.err = e]

HasInterface(c) == c.builds \in {"controller", "both"}
HasServer(c) == c.builds \in {"server", "both"}

\* The collectors one iteration registers with config.Registry.
NgMetrics(c) ==
    (IF HasInterface(c) THEN {<<"process", c.gvk>>} ELSE {})
    \cup (IF HasServer(c)
          THEN {<<"request_count", c.gvk>>, <<"request_time", c.gvk>>}
          ELSE {})

\* A logger is the sequence of the GVK fields added to the caller's logger
\* with With(logz.Gvk(...)).  gvkLogger := config.Logger.With(...);
\* constructorConfig := config copies the pointer, so the assignment
\* constructorConfig.Logger = gvkLogger is an assignment to config.Logger.
GvkLogger(n, c) == Append(n.configLogger, c.gvk)

\* The Context of a constructor: its Informers and Controllers fields are
\* the maps `informers` and `controllers` of NewGeneric, not copies.
NewContext == [informers |-> "informers", controllers |-> "controllers"]

\* The maps seen through the Context of constructor i.
ContextView(n, i) ==
    [informers |-> n[n.contexts[i].informers],
     controllers |-> n[n.contexts[i].controllers]]

\* Mutant of AddEventHandler: every handler feeds the partition of the
\* first GVK.
AddEventHandlerOneQueue(c) == [informer |-> c.gvk, queue |-> 1]

\* inf.AddEventHandler(&GenericHandler{WorkQueue: queueGvk}) on the informer
\* of descr.Gvk, with the queue partition of descr.Gvk.
AddEventHandler(c) == [informer |-> c.gvk, queue |-> c.gvk]

\* The start of an iteration up to constr.New(constructorConfig, &Context):
\* the constructor registers its informers through the Context.
NewGenericNew(n, c) ==
    [n EXCEPT !.configLogger = GvkLogger(n, c),
              !.given = Append(@, GvkLogger(n, c)),
              !.contexts = Append(@, NewContext),
              !.informers = @ \cup c.registers]

\* One iteration of the loop over the constructors, for constructor c.
NewGenericBody(n, c) ==
    LET n1 == NewGenericNew(n, c) IN
    IF c.fails THEN NgFail(n1, "construct")
    ELSE IF ~HasInterface(c) /\ ~HasServer(c)
    THEN NgFail(n1, "none")   \* errors.Wrapf(err, ...) with a nil err is nil
    ELSE IF HasInterface(c) /\ c.gvk \in n1.controllers
    THEN NgFail(n1, "duplicate controller")
    ELSE IF HasInterface(c) /\ c.gvk \notin n1.informers
    THEN NgFail(n1, "no informer")
    ELSE LET n2 == IF HasInterface(c)
                   THEN [n1 EXCEPT !.handlers = @ \cup {c.gvk},
                                   !.attached = Append(@, AddEventHandler(c)),
                                   !.controllers = @ \cup {c.gvk}]
                   ELSE n1
         IN  IF HasServer(c) /\ c.gvk \in n2.servers
             THEN NgFail(n2, "duplicate server")
             ELSE LET n3 == IF HasServer(c)
                            THEN [n2 EXCEPT !.servers = @ \cup {c.gvk}]
                            ELSE n2
                  IN  IF NgMetrics(c) \cap n3.metrics # {}
                      THEN NgFail(n3, "register")
                      ELSE [n3 EXCEPT !.metrics = @ \cup NgMetrics(c),
                                      !.i = @ + 1]

runtimeVars == <<runVars, ctxDone, infVars, ctlVars, wrkVars, q, histVars,
                 cancelledEarly, lateAdd>>

\* for _, constr := range constructors { ... }
NewGenericConstruct ==
    /\ ng.at = "loop"
    /\ ng.i <= NumConstructors
    /\ ng' = NewGenericBody(ng, ng.constructors[ng.i])
    /\ UNCHANGED <<runtimeVars, crh, rl, moreVars>>

\* return &Generic{...}, nil
NewGenericReturn ==
    /\ ng.at = "loop"
    /\ ng.i > NumConstructors
    /\ ng' = [ng EXCEPT !.at = "done", !.ret = "generic",
                        !.runtimeLogger = ng.configLogger]
    /\ UNCHANGED <<runtimeVars, crh, rl, moreVars>>

InitNewGeneric ==
    /\ InitWith(FALSE)
    /\ crh = CrhIdle /\ rl = RlIdle /\ MoreIdle
    /\ \E cs \in ConstructorLists : ng = NgStart(cs)

NextNewGeneric == NewGenericConstruct \/ NewGenericReturn

SpecNewGeneric == InitNewGeneric /\ [][NextNewGeneric]_vars

\* Every constructor builds something and its New returns no error.
AllBuild ==
    \A i \in 1..NumConstructors :
        ng.constructors[i].builds # "none" /\ ~ng.constructors[i].fails

\* NewGeneric has returned an error and no runtime.
NgRejected == ng.ret = "nil" /\ ng.err # "none"

\* C15: when two constructors declare the same GVK, whatever each of them
\* builds (controller, server or both), NewGeneric returns an error and no
\* runtime, and Run is never entered.
C15_DuplicateGvkRejected ==
    (/\ ng.at = "done"
     /\ AllBuild
     /\ \E i, j \in 1..NumConstructors :
            i < j /\ ng.constructors[i].gvk = ng.constructors[j].gvk)
    => (NgRejected /\ pc = "start")

\* C16: when the New of a constructor that builds a controller returns
\* without having registered an informer for its own GVK, NewGeneric returns
\* an error and no runtime, whatever the earlier constructors registered.
C16_OwnInformerRequired ==
    (/\ ng.at = "done"
     /\ AllBuild
     /\ \E i \in 1..NumConstructors :
            LET c == ng.constructors[i] IN
            HasInterface(c) /\ c.gvk \notin c.registers)
    => NgRejected

\* --------------------------------------------------------- the rate limiter
\* workqueue.DefaultControllerRateLimiter(): MaxOfRateLimiter over an
\* ItemExponentialFailureRateLimiter (per key: base * 2^failures, capped) and
\* a BucketRateLimiter (one token bucket for all keys).  Delays are counted
\* in units of the base delay.
MaxDelay == BaseDelay * 2 ^ MaxFailures

Max(a, b) == IF a > b THEN a ELSE b

RlStart ==
    [at |-> "run", failures |-> [k \in TypedKeys |-> 0],
     tokens |-> BucketBurst, delay |-> [k \in TypedKeys |-> 0]]

\* ItemExponentialFailureRateLimiter.When: the delay for the failures counted
\* so far.
ItemDelay(f) == Min(BaseDelay * 2 ^ f, MaxDelay)

\* BucketRateLimiter.When: Limiter.Reserve().Delay() when t tokens are left
\* after the reservation; a reservation beyond the bucket waits for the
\* refill of the tokens it owes.
BucketDelay(t) == IF t < 0 THEN (0 - t) * BucketInterval ELSE 0

\* MaxOfRateLimiter.When(k): every limiter is asked, the longest delay wins.
RlWhen(r, k) ==
    [r EXCEPT !.failures[k] = Min(@ + 1, MaxFailures),
              !.tokens = @ - 1,
              !.delay[k] = Max(ItemDelay(r.failures[k]),
                               BucketDelay(r.tokens - 1))]

\* MaxOfRateLimiter.Forget(k): the per key limiter forgets the failures; the
\* bucket has nothing to forget.
RlForget(r, k) == [r EXCEPT !.failures[k] = 0, !.delay[k] = 0]

\* AddRateLimited(k) asks the limiter for the delay of k.
RateLimiterWhen(k) ==
    /\ rl.at = "run"
    /\ rl.tokens > 0 - MaxDebt
    /\ rl' = RlWhen(rl, k)
    /\ UNCHANGED <<runtimeVars, ng, crh, moreVars>>

\* Forget(k) after a success.
RateLimiterForget(k) ==
    /\ rl.at = "run"
    /\ rl' = RlForget(rl, k)
    /\ UNCHANGED <<runtimeVars, ng, crh, moreVars>>

\* Time passes: the bucket gains a token, up to its burst.
BucketRefill ==
    /\ rl.at = "run"
    /\ rl.tokens < BucketBurst
    /\ rl' = [rl EXCEPT !.tokens = @ + 1]
    /\ UNCHANGED <<runtimeVars, ng, crh, moreVars>>

InitRateLimiter ==
    /\ InitWith(FALSE)
    /\ ng = NgIdle /\ crh = CrhIdle /\ MoreIdle
    /\ rl = RlStart

NextRateLimiter ==
    \/ \E k \in TypedKeys : RateLimiterWhen(k)
    \/ \E k \in TypedKeys : RateLimiterForget(k)
    \/ BucketRefill

SpecRateLimiter == InitRateLimiter /\ [][NextRateLimiter]_vars

\* C12: the delay of a failure that follows a failure of the same key is
\* longer than the previous delay (or both are the maximum), no delay exceeds
\* the maximum, and the delay of the first failure since the start or since
\* a Forget is the base delay.
C12_BackoffGrows ==
    [][\A k \in TypedKeys :
        RateLimiterWhen(k) =>
            /\ rl'.delay[k] <= MaxDelay
            /\ rl.failures[k] = 0 => rl'.delay[k] = BaseDelay
            /\ rl.failures[k] > 0 =>
                \/ rl'.delay[k] > rl.delay[k]
                \/ rl.delay[k] = MaxDelay /\ rl'.delay[k] = MaxDelay]_vars

\* The delays of the queue elapse: a deduplication window and a backoff
\* delay are finite.
TimerFairness ==
    /\ \A k \in TypedKeys : WF_vars(WindowElapsed(k))
    /\ \A k \in TypedKeys : WF_vars(BackoffElapsed(k))

\* A worker that can take a step eventually takes one.
WorkerFairness == \A w \in Workers : WF_vars(WorkerStep(w))

TimedFairSpec == Spec /\ WorkerFairness /\ TimerFairness

\* C13: a retriable error schedules a retry whatever the number of failures
\* already counted for the key; a key whose retry was scheduled, and a key
\* in the queue of the started worker pool, is delivered to a worker,
\* whatever other keys fail, unless the shutdown of the queue dropped it.
C13_RetriedForever ==
    /\ [][\A w \in Workers :
            (/\ wpc[w] = "process" /\ wpc'[w] = "done"
             /\ wres'[w] = "retriable" /\ ~q.shuttingDown)
            => wkey[w] \in q'.backoff]_vars
    /\ \A k \in TypedKeys :
        (\/ /\ ~q.shuttingDown
            /\ \E w \in Workers :
                wpc[w] = "done" /\ wres[w] = "retriable" /\ wkey[w] = k
         \/ InQueue(q, k) /\ stages = 3)
        ~> (\/ \E w \in Workers : wpc[w] = "process" /\ wkey[w] = k
            \/ q.shuttingDown /\ ~InQueue(q, k))

\* A key that has failed MaxFailures times is delivered once more, while a
\* key without failures is being processed as well.
C13_Witness ==
    \E w1, w2 \in Workers :
        /\ wpc[w1] = "process" /\ q.failures[wkey[w1]] = MaxFailures
        /\ wpc[w2] = "process" /\ wkey[w2] # wkey[w1]
        /\ q.failures[wkey[w2]] = 0

\* Deliveries of k the queue still owes: scheduled, backing off, or marked
\* dirty during the attempt in flight.
Pending(qq, k) ==
    Scheduled(qq, k) + (IF k \in qq.backoff THEN 1 ELSE 0)
                     + (IF k \in qq.dirty THEN 1 ELSE 0)

\* C11: once the queue is shut down, a worker that finds the queue empty in
\* Get leaves its loop, every started worker eventually exits, and no Add
\* (or retry) made after the shutdown makes a key deliverable: what a worker
\* still receives was owed before the shutdown.
C11_ShutDownReleasesWorkers ==
    /\ [][q.shuttingDown =>
            /\ q'.shuttingDown
            /\ \A k \in TypedKeys : Pending(q', k) <= Pending(q, k)
            /\ \A w \in Workers :
                (wpc[w] = "get" /\ q.queue = <<>> /\ wpc'[w] # "get")
                    => wpc'[w] = "exited"]_vars
    /\ q.shuttingDown ~> (\A w \in Workers : wpc[w] \in {"idle", "exited"})

\* Every worker has exited and a key added after the shutdown was dropped.
C11_Witness ==
    /\ lateAdd # {}
    /\ \A w \in Workers : wpc[w] = "exited"
    /\ \A k \in lateAdd : Pending(q, k) = 0

\* The controller whose Process the worker calls for a key: the binding of
\* the key's GVK.
ProcessController(k) == k[1]

\* Everything the queue holds about key k.
KeyState(qq, k) ==
    <<Count(qq.queue, k), k \in qq.waiting, k \in qq.backoff, k \in qq.dirty,
      k \in qq.processing, qq.failures[k]>>

\* C14: a key in flight is a key of the partition of a started controller
\* whose informer produced it, and that controller is the one processing it;
\* an Add in one partition leaves every key of another partition as it was,
\* also the key of the same (namespace, name), and an accepted Add of a key
\* always leaves a delivery of that very key owed.
C14_PartitionsIsolated ==
    /\ [](\A w \in Workers :
            InFlight(w) =>
                /\ wkey[w] \in TypedKeys
                /\ ProcessController(wkey[w]) \in Controllers
                /\ ctl[ProcessController(wkey[w])] # "idle"
                /\ inf[wkey[w][1]] # "idle")
    /\ [][\A k \in TypedKeys :
            GenericHandlerEvent(k) =>
                /\ \A k2 \in TypedKeys \ {k} :
                    KeyState(q', k2) = KeyState(q, k2)
                /\ ~q.shuttingDown => Pending(q', k) >= 1]_vars
    /\ [][\A w \in Workers :
            (wpc[w] = "get" /\ wpc'[w] = "process") =>
                /\ wkey'[w] = Head(q.queue)
                /\ \A k2 \in TypedKeys \ {wkey'[w]} :
                    KeyState(q', k2) = KeyState(q, k2)]_vars

\* The keys of two partitions with the same (namespace, name) are processed
\* at the same time, each by a worker.
C14_Witness ==
    \E w1, w2 \in Workers :
        /\ wpc[w1] = "process" /\ wpc[w2] = "process"
        /\ wkey[w1][1] # wkey[w2][1]
        /\ wkey[w1][2] = wkey[w2][2]

\* ------------------------------------------------ ControlledResourceHandler
\* The handler for objects owned by a controller object of the GVK
\* ControllerGvk.  An object has a namespace and at most one controller
\* owner reference (meta_v1.GetControllerOf); the keys the handler passes
\* to WorkQueue.Add are recorded in the order of the calls.
Namespaces == 1..NumNamespaces
OwnerNames == {"A", "B"}
ExpectedApiVersion == "group/v1"
ExpectedKind == "Owner"

NoRef == [set |-> FALSE, apiVersion |-> "", kind |-> "", name |-> ""]
Refs ==
    {NoRef} \cup [set : {TRUE}, apiVersion : {ExpectedApiVersion, "group/v2"},
                  kind : {ExpectedKind, "Other"}, name : OwnerNames]
Objects == [ns : Namespaces, ref : Refs]

\* QueueKey{Namespace, Name}; the candidates an index returns are controller
\* objects, of which the handler reads namespace and name.
QueueKeys == [ns : Namespaces, name : OwnerNames]

BoundedSeq(S, n) == UNION {[1..m -> S] : m \in 0..n}

\* ControllerIndex: absent (nil), or what ControllerByObject returns for the
\* object of the event: an error or a list of controller objects.
IndexResults ==
    {[kind |-> "nil", list |-> <<>>], [kind |-> "error", list |-> <<>>]}
    \cup [kind : {"ok"}, list : BoundedSeq(QueueKeys, MaxCandidates)]

\* What a delete notification carries: the object, a tombstone
\* (cache.DeletedFinalStateUnknown) holding the object, a tombstone holding
\* something else, or something else.
Payloads == {"live", "tombstone", "badTombstone", "unknown"}

\* Mutant of GetControllerName: the type of the owner is not compared.
GetControllerNameAnyType(obj) == IF obj.ref.set THEN obj.ref.name ELSE ""

\* Mutant of GetControllerName: the owner reference is ignored.
GetControllerNameNone(obj) == ""

\* getControllerNameAndNamespace: the name of the controller owner reference
\* when it is of the expected API version and kind, else "".
GetControllerName(obj) ==
    IF /\ obj.ref.set
       /\ obj.ref.apiVersion = ExpectedApiVersion
       /\ obj.ref.kind = ExpectedKind
    THEN obj.ref.name
    ELSE ""

\* rebuildControllerByName: WorkQueue.Add(QueueKey{namespace, name}), unless
\* the name is empty.
RebuildControllerByName(ns, name) ==
    IF name = "" THEN <<>> ELSE <<[ns |-> ns, name |-> name]>>

\* for _, controller := range controllers { rebuildControllerByName(...) }
RECURSIVE EnqueueControllers(_)
EnqueueControllers(list) ==
    IF list = <<>> THEN <<>>
    ELSE RebuildControllerByName(Head(list).ns, Head(list).name)
         \o EnqueueControllers(Tail(list))

\* enqueueMapped: the keys added, the index lookups made, the errors logged.
EnqueueMapped(obj, index) ==
    LET name == GetControllerName(obj) IN
    IF name = ""
    THEN IF index.kind = "nil"
         THEN [adds |-> <<>>, lookups |-> 0, errors |-> 0]
         ELSE IF index.kind = "error"
         THEN [adds |-> <<>>, lookups |-> 1, errors |-> 1]
         ELSE [adds |-> EnqueueControllers(index.list), lookups |-> 1,
               errors |-> 0]
    ELSE [adds |-> RebuildControllerByName(obj.ns, name), lookups |-> 0,
          errors |-> 0]

\* The effects of two calls, one after the other.
Then(a, b) ==
    [adds |-> a.adds \o b.adds, lookups |-> a.lookups + b.lookups,
     errors |-> a.errors + b.errors]

Nothing == [adds |-> <<>>, lookups |-> 0, errors |-> 0]

\* Mutant of OnUpdateEffect: a failed lookup for the old state ends the
\* handling of the event.
OnUpdateEffectStopOnError(old, new, index) ==
    LET first == IF GetControllerName(old) # GetControllerName(new)
                 THEN EnqueueMapped(old, index)
                 ELSE Nothing
    IN  IF first.errors > 0 THEN first
        ELSE Then(first, EnqueueMapped(new, index))

\* Mutant of OnUpdateEffect: the old state is always resolved.
OnUpdateEffectAlwaysOld(old, new, index) ==
    Then(EnqueueMapped(old, index), EnqueueMapped(new, index))

\* Mutant of OnUpdateEffect: only the new state is resolved.
OnUpdateEffectNewOnly(old, new, index) == EnqueueMapped(new, index)

\* OnUpdate: the old state is resolved when the owner name changed, then the
\* new state.
OnUpdateEffect(old, new, index) ==
    Then(IF GetControllerName(old) # GetControllerName(new)
         THEN EnqueueMapped(old, index)
         ELSE Nothing,
         EnqueueMapped(new, index))

\* Mutant of OnDeleteEffect: a tombstone is not unwrapped.
OnDeleteEffectLiveOnly(payload, obj, index) ==
    IF payload = "live" THEN EnqueueMapped(obj, index)
    ELSE [adds |-> <<>>, lookups |-> 0, errors |-> 1]

\* OnDelete: the object, or the object of the tombstone, is resolved; any
\* other payload is logged and dropped.
OnDeleteEffect(payload, obj, index) ==
    IF payload \in {"live", "tombstone"} THEN EnqueueMapped(obj, index)
    ELSE [adds |-> <<>>, lookups |-> 0, errors |-> 1]

\* An event delivered to the handler, not handled yet.
CrhEvent(e, p, old, new, index) ==
    [at |-> "event", event |-> e, payload |-> p, old |-> old, new |-> new,
     index |-> index, adds |-> <<>>, lookups |-> 0, errors |-> 0]

\* The handler has returned with effect eff.
CrhReturn(eff) ==
    [crh EXCEPT !.at = "done", !.adds = eff.adds, !.lookups = eff.lookups,
                !.errors = eff.errors]

OnAdd ==
    /\ crh.at = "event" /\ crh.event = "add"
    /\ crh' = CrhReturn(EnqueueMapped(crh.new, crh.index))
    /\ UNCHANGED <<runtimeVars, ng, rl, moreVars>>

OnUpdate ==
    /\ crh.at = "event" /\ crh.event = "update"
    /\ crh' = CrhReturn(OnUpdateEffect(crh.old, crh.new, crh.index))
    /\ UNCHANGED <<runtimeVars, ng, rl, moreVars>>

OnDelete ==
    /\ crh.at = "event" /\ crh.event = "delete"
    /\ crh' = CrhReturn(OnDeleteEffect(crh.payload, crh.new, crh.index))
    /\ UNCHANGED <<runtimeVars, ng, rl, moreVars>>

\* The events the informer can deliver: an update keeps the namespace of
\* the object.
CrhEvents ==
    {CrhEvent("add", "live", new, new, index) :
        new \in Objects, index \in IndexResults}
    \cup {CrhEvent("update", "live", on[1], on[2], index) :
        on \in {x \in Objects \X Objects : x[1].ns = x[2].ns},
        index \in IndexResults}
    \cup UNION {{CrhEvent("delete", p, new, new, index) :
                    new \in Objects, index \in IndexResults} : p \in Payloads}

InitHandler ==
    /\ InitWith(FALSE)
    /\ ng = NgIdle /\ rl = RlIdle /\ MoreIdle
    /\ crh \in CrhEvents

NextHandler == OnAdd \/ OnUpdate \/ OnDelete

SpecHandler == InitHandler /\ [][NextHandler]_vars

\* The object carries a controller owner reference of the expected type.
Owned(obj) ==
    /\ obj.ref.set
    /\ obj.ref.apiVersion = ExpectedApiVersion
    /\ obj.ref.kind = ExpectedKind

\* The key of the owner the reference of obj names.
OwnerKey(obj) == [ns |-> obj.ns, name |-> obj.ref.name]

\* The handler has returned from an event e.
Handled(e) == crh.at = "done" /\ crh.event = e

\* C17: OnUpdate of an object whose controller owner reference changed from
\* owner A to owner B, both of the expected type, adds A's key and B's key,
\* once each, in the namespace of the object, and nothing else.
C17_ReparentEnqueuesBoth ==
    (/\ Handled("update")
     /\ Owned(crh.old) /\ Owned(crh.new)
     /\ crh.old.ref.name # crh.new.ref.name)
    => crh.adds = <<OwnerKey(crh.old), OwnerKey(crh.new)>>

\* An update from owner A to owner B has been handled.
C17_Witness ==
    /\ Handled("update")
    /\ Owned(crh.old) /\ crh.old.ref.name = "A"
    /\ Owned(crh.new) /\ crh.new.ref.name = "B"
    /\ Len(crh.adds) = 2

\* C18: OnDelete adds what OnAdd adds for the same object and index, for the
\* live object and for a tombstone alike; for an object without controller
\* owner reference and an index answer of two distinct candidates these are
\* the keys of the two candidates, once each.
C18_DeleteResolvesLikeAdd ==
    (Handled("delete") /\ crh.payload \in {"live", "tombstone"})
    => /\ crh.adds = EnqueueMapped(crh.new, crh.index).adds
       /\ (/\ ~crh.new.ref.set
           /\ crh.index.kind = "ok"
           /\ Len(crh.index.list) = 2
           /\ crh.index.list[1] # crh.index.list[2])
          => crh.adds = crh.index.list

\* The delete of an object without owner reference arrived as a tombstone
\* and the two candidates of the index were added.
C18_Witness ==
    /\ Handled("delete") /\ crh.payload = "tombstone"
    /\ ~crh.new.ref.set
    /\ crh.index.kind = "ok" /\ Len(crh.index.list) = 2
    /\ crh.index.list[1] # crh.index.list[2]
    /\ crh.adds = crh.index.list

\* What the resolution of the old state of an update adds, when the new
\* state is owned: nothing for the same owner, the old owner's key for
\* another owner, the candidates of the index for an old state without
\* owner.
OldStateAdds ==
    IF Owned(crh.old)
    THEN IF crh.old.ref.name = crh.new.ref.name THEN <<>>
         ELSE <<OwnerKey(crh.old)>>
    ELSE IF crh.index.kind = "ok" THEN crh.index.list ELSE <<>>

\* C19: for an object with a controller owner reference of the expected API
\* version and kind, OnAdd adds exactly the key (namespace of the object,
\* name of the owner) and makes no index lookup; in OnUpdate the new state
\* adds exactly that key, after what the old state added, and the index is
\* consulted only for an old state without owner.
C19_OwnerRefEnqueuesOwner ==
    /\ (Handled("add") /\ Owned(crh.new))
        => (crh.adds = <<OwnerKey(crh.new)>> /\ crh.lookups = 0)
    /\ (Handled("update") /\ Owned(crh.new))
        => /\ crh.adds = OldStateAdds \o <<OwnerKey(crh.new)>>
           /\ crh.lookups =
                IF ~Owned(crh.old) /\ crh.index.kind # "nil" THEN 1 ELSE 0

\* An owned object was added while the index had two candidates for it.
C19_Witness ==
    /\ Handled("add") /\ Owned(crh.new)
    /\ crh.index.kind = "ok" /\ Len(crh.index.list) = 2
    /\ crh.adds = <<OwnerKey(crh.new)>>

\* C20: when the index lookup fails, the resolution that made it adds
\* nothing and the handler returns after logging one error and one lookup;
\* in an OnUpdate the other state's owner key is added all the same.
C20_IndexErrorDropsFanOut ==
    (crh.at = "done" /\ crh.index.kind = "error")
    => /\ crh.lookups <= 1
       /\ (/\ crh.event = "add" \/ crh.payload \in {"live", "tombstone"}
           /\ crh.event # "update"
           /\ ~Owned(crh.new))
          => (crh.adds = <<>> /\ crh.lookups = 1 /\ crh.errors = 1)
       /\ (crh.event = "update" /\ ~Owned(crh.old) /\ ~Owned(crh.new))
          => (crh.adds = <<>> /\ crh.lookups = 1 /\ crh.errors = 1)
       /\ (crh.event = "update" /\ Owned(crh.old) /\ ~Owned(crh.new))
          => (crh.adds = <<OwnerKey(crh.old)>> /\ crh.errors = 1)
       /\ (crh.event = "update" /\ ~Owned(crh.old) /\ Owned(crh.new))
          => (crh.adds = <<OwnerKey(crh.new)>> /\ crh.errors = 1)

\* The lookup for the old state of an update failed and the owner of the
\* new state was added.
C20_Witness ==
    /\ Handled("update") /\ crh.index.kind = "error"
    /\ ~Owned(crh.old) /\ Owned(crh.new)
    /\ crh.adds = <<OwnerKey(crh.new)>> /\ crh.errors = 1

\* ------------------------------------------- GenericHandler, LookupHandler
\* An object of these handlers is identified by namespace and name; the
\* targets a Lookup returns are objects as well.
KeyOf(o) == [ns |-> o.ns, name |-> o.name]

\* Lookup(obj): an error or a list of objects.  NoLookup: the handler has
\* no Lookup (GenericHandler).
NoLookup == [kind |-> "none", list |-> <<>>]
LookupResults ==
    {[kind |-> "error", list |-> <<>>]}
    \cup [kind : {"ok"}, list : BoundedSeq(QueueKeys, MaxCandidates)]

\* The revisions of GenericHandler: src/generic_handler.go, part_003 and
\* the one in go.mod.
Revisions == {"latest", "part_003", "go.mod"}

\* Mutant of GenericAdd: the namespace of the object is dropped.
GenericAddClusterScoped(obj) == <<[ns |-> 1, name |-> obj.name]>>

\* GenericHandler.add: WorkQueue.Add(QueueKey{obj.GetNamespace(),
\* obj.GetName()}).
GenericAdd(obj) == <<KeyOf(obj)>>

Effect(adds, evaluated, errors, fault) ==
    [adds |-> adds, evaluated |-> evaluated, errors |-> errors,
     fault |-> fault]

\* Mutant of GenericOnDeleteEffect: a tombstone is logged and dropped.
GenericOnDeleteEffectLiveOnly(payload, obj) ==
    IF payload = "live" THEN Effect(GenericAdd(obj), {}, 0, FALSE)
    ELSE Effect(<<>>, {}, 1, FALSE)

\* GenericHandler.OnDelete of src/generic_handler.go and of part_003.
GenericOnDeleteEffect(payload, obj) ==
    IF payload \in {"live", "tombstone"}
    THEN Effect(GenericAdd(obj), {}, 0, FALSE)
    ELSE Effect(<<>>, {}, 1, FALSE)

\* GenericHandler.OnDelete of the revision in go.mod: obj.(meta_v1.Object)
\* without the ok result panics for a payload that is no object.
GenericOnDeleteEffectOld(payload, obj) ==
    IF payload = "live" THEN Effect(GenericAdd(obj), {}, 0, FALSE)
    ELSE Effect(<<>>, {}, 0, TRUE)

\* for _, o := range objs { e.WorkQueue.Add(QueueKey{...}) }
RECURSIVE LookupAdds(_)
LookupAdds(list) ==
    IF list = <<>> THEN <<>>
    ELSE <<KeyOf(Head(list))>> \o LookupAdds(Tail(list))

\* LookupHandler.enqueueMapped for the state `which` of the object, for
\* which Lookup returns res.
LookupEnqueueMapped(which, res) ==
    IF res.kind = "error" THEN Effect(<<>>, {which}, 1, FALSE)
    ELSE Effect(LookupAdds(res.list), {which}, 0, FALSE)

\* Mutant of LookupOnUpdateEffect: the old state is looked up as well.
LookupOnUpdateEffectBoth(resOld, resNew) ==
    LET a == LookupEnqueueMapped("old", resOld)
        b == LookupEnqueueMapped("new", resNew)
    IN  Effect(a.adds \o b.adds, {"old", "new"}, a.errors + b.errors, FALSE)

\* LookupHandler.OnUpdate.
LookupOnUpdateEffect(resOld, resNew) == LookupEnqueueMapped("new", resNew)

\* LookupHandler.OnDelete.
LookupOnDeleteEffect(payload, res) ==
    IF payload \in {"live", "tombstone"} THEN LookupEnqueueMapped("new", res)
    ELSE Effect(<<>>, {}, 1, FALSE)

\* An event delivered to handler h, after `count` events with an object
\* that added `adds`.
EvhEvent(h, rev, e, p, obj, resOld, resNew, adds, count) ==
    [at |-> "event", handler |-> h, rev |-> rev, event |-> e, payload |-> p,
     new |-> obj, lookupOld |-> resOld, lookupNew |-> resNew, adds |-> adds,
     last |-> <<>>, evaluated |-> {}, errors |-> 0, count |-> count]

\* The handler has returned with effect eff, or has panicked.
EvhReturn(eff) ==
    [evh EXCEPT !.at = IF eff.fault THEN "panicked" ELSE "done",
                !.adds = @ \o eff.adds, !.last = eff.adds,
                !.evaluated = eff.evaluated, !.errors = eff.errors,
                !.count = IF evh.payload \in {"live", "tombstone"}
                          THEN @ + 1 ELSE @]

otherThanEvh == <<runtimeVars, ng, crh, rl, lsp, app, sig, vf, lateVars>>

At(h, e) == evh.at = "event" /\ evh.handler = h /\ evh.event = e

GenericOnAdd ==
    /\ At("generic", "add")
    /\ evh' = EvhReturn(Effect(GenericAdd(evh.new), {}, 0, FALSE))
    /\ UNCHANGED otherThanEvh

GenericOnUpdate ==
    /\ At("generic", "update")
    /\ evh' = EvhReturn(Effect(GenericAdd(evh.new), {}, 0, FALSE))
    /\ UNCHANGED otherThanEvh

GenericOnDelete ==
    /\ At("generic", "delete") /\ evh.rev \in {"latest", "part_003"}
    /\ evh' = EvhReturn(GenericOnDeleteEffect(evh.payload, evh.new))
    /\ UNCHANGED otherThanEvh

GenericOnDeleteOld ==
    /\ At("generic", "delete") /\ evh.rev = "go.mod"
    /\ evh' = EvhReturn(GenericOnDeleteEffectOld(evh.payload, evh.new))
    /\ UNCHANGED otherThanEvh

LookupOnAdd ==
    /\ At("lookup", "add")
    /\ evh' = EvhReturn(LookupEnqueueMapped("new", evh.lookupNew))
    /\ UNCHANGED otherThanEvh

LookupOnUpdate ==
    /\ At("lookup", "update")
    /\ evh' = EvhReturn(LookupOnUpdateEffect(evh.lookupOld, evh.lookupNew))
    /\ UNCHANGED otherThanEvh

LookupOnDelete ==
    /\ At("lookup", "delete")
    /\ evh' = EvhReturn(LookupOnDeleteEffect(evh.payload, evh.lookupNew))
    /\ UNCHANGED otherThanEvh

\* The events of a GenericHandler of revision rev.
GenericEvents(rev, adds, count) ==
    {EvhEvent("generic", rev, e, "live", o, NoLookup, NoLookup, adds, count) :
        e \in {"add", "update"}, o \in QueueKeys}
    \cup {EvhEvent("generic", rev, "delete", po[1], po[2], NoLookup, NoLookup,
                   adds, count) : po \in Payloads \X QueueKeys}

\* The events of a LookupHandler.
LookupEvents ==
    {EvhEvent("lookup", "latest", "add", "live", or[1], or[2], or[2], <<>>, 0) :
        or \in QueueKeys \X LookupResults}
    \cup {EvhEvent("lookup", "latest", "update", "live", orr[1], orr[2],
                   orr[3], <<>>, 0) :
        orr \in QueueKeys \X LookupResults \X LookupResults}
    \cup {EvhEvent("lookup", "latest", "delete", por[1], por[2], por[3],
                   por[3], <<>>, 0) :
        por \in Payloads \X QueueKeys \X LookupResults}

\* The informer delivers a further event to the GenericHandler.
GenericNextEvent ==
    /\ evh.at = "done" /\ evh.handler = "generic"
    /\ evh.count < MaxEvents
    /\ evh' \in GenericEvents(evh.rev, evh.adds, evh.count)
    /\ UNCHANGED otherThanEvh

\* One event for one of the three handlers.
InitRouters ==
    /\ InitWith(FALSE)
    /\ ng = NgIdle /\ rl = RlIdle
    /\ lsp = LspIdle /\ app = AppIdle /\ sig = SigIdle /\ vf = VfIdle
    /\ LateIdle
    /\ \/ crh \in CrhEvents /\ evh = EvhIdle
       \/ /\ crh = CrhIdle
          /\ evh \in LookupEvents
                \cup UNION {GenericEvents(rev, <<>>, 0) : rev \in Revisions}

NextRouters ==
    \/ OnAdd
    \/ OnUpdate
    \/ OnDelete
    \/ GenericOnAdd
    \/ GenericOnUpdate
    \/ GenericOnDelete
    \/ GenericOnDeleteOld
    \/ GenericNextEvent
    \/ LookupOnAdd
    \/ LookupOnUpdate
    \/ LookupOnDelete

SpecRouters == InitRouters /\ [][NextRouters]_vars

\* Handler h has finished (returned or panicked) the event e.
Finished(h, e) ==
    evh.at \in {"done", "panicked"} /\ evh.handler = h /\ evh.event = e

\* C21: for a tombstone that wraps object o, OnDelete of each of the three
\* handlers returns having made the Add calls it makes for the live object
\* o: the key of o (GenericHandler of src/generic_handler.go and part_003),
\* the keys of the targets looked up for o (LookupHandler), the keys of the
\* owners resolved for o (ControlledResourceHandler).
C21_TombstoneLikeLive ==
    /\ (Handled("delete") /\ crh.payload = "tombstone")
        => crh.adds = OnDeleteEffect("live", crh.new, crh.index).adds
    /\ (/\ Finished("generic", "delete") /\ evh.payload = "tombstone"
        /\ evh.rev \in {"latest", "part_003"})
        => /\ evh.at = "done"
           /\ evh.last = GenericOnDeleteEffect("live", evh.new).adds
           /\ evh.last = <<KeyOf(evh.new)>>
    /\ (Finished("lookup", "delete") /\ evh.payload = "tombstone")
        => /\ evh.at = "done"
           /\ evh.last = LookupOnDeleteEffect("live", evh.lookupNew).adds
           /\ evh.errors = LookupOnDeleteEffect("live", evh.lookupNew).errors

\* The LookupHandler has handled a tombstone for whose object Lookup
\* returned two targets.
C21_Witness ==
    /\ Finished("lookup", "delete") /\ evh.payload = "tombstone"
    /\ evh.lookupNew.kind = "ok" /\ Len(evh.lookupNew.list) = 2
    /\ Len(evh.last) = 2

\* C22: no delete notification makes a handler panic, whatever the revision
\* of GenericHandler; a payload that is neither an object nor a tombstone
\* holding one is logged and dropped without an Add.
C22_DeleteNeverFaults ==
    /\ evh.at # "panicked"
    /\ (/\ evh.at = "done" /\ evh.event = "delete"
        /\ evh.payload \in {"badTombstone", "unknown"})
        => (evh.last = <<>> /\ evh.errors = 1)
    /\ (Handled("delete") /\ crh.payload \in {"badTombstone", "unknown"})
        => (crh.adds = <<>> /\ crh.errors = 1)

\* C23: every event of a GenericHandler that carries an object makes one Add
\* call, with the namespace and name of the object; the calls of successive
\* events add up, also for the same object.
C23_GenericOneAddPerEvent ==
    (evh.at = "done" /\ evh.handler = "generic")
    => /\ evh.payload \in {"live", "tombstone"}
            => evh.last = <<KeyOf(evh.new)>>
       /\ Len(evh.adds) = evh.count

\* Two events for the same object have made two Add calls with its key.
C23_Witness ==
    /\ evh.at = "done" /\ evh.handler = "generic" /\ evh.rev = "latest"
    /\ evh.event = "update"
    /\ evh.count = 2
    /\ evh.adds = <<KeyOf(evh.new), KeyOf(evh.new)>>

\* C24: a LookupHandler makes one Add call per target that Lookup returns
\* for the object of the event, with the target's namespace and name, in
\* the order of the list; Lookup is evaluated once, never for the old state
\* of an update; nothing is added when Lookup fails.
C24_LookupFanOut ==
    (evh.at = "done" /\ evh.handler = "lookup")
    => IF evh.payload \in {"live", "tombstone"}
       THEN /\ evh.evaluated = {"new"}
            /\ evh.lookupNew.kind = "error"
                => (evh.last = <<>> /\ evh.errors = 1)
            /\ evh.lookupNew.kind = "ok"
                => (evh.last = evh.lookupNew.list /\ evh.errors = 0)
       ELSE evh.evaluated = {} /\ evh.last = <<>>

\* An update was handled for which Lookup returns two targets for the new
\* state and other targets for the old state.
C24_Witness ==
    /\ evh.at = "done" /\ evh.handler = "lookup" /\ evh.event = "update"
    /\ evh.lookupOld.kind = "ok" /\ Len(evh.lookupOld.list) = 1
    /\ evh.lookupNew.kind = "ok" /\ Len(evh.lookupNew.list) = 2
    /\ evh.lookupOld.list[1] # evh.lookupNew.list[1]
    /\ evh.lookupOld.list[1] # evh.lookupNew.list[2]
    /\ evh.last = evh.lookupNew.list

\* ------------------------------------------------------ LogStructuredPanic
\* A function guarded by `defer logz.LogStructuredPanic(...)`, possibly under
\* further guards of its callers (App.startLeaderElection notes that a panic
\* is logged several times).  The function returns or panics with a value;
\* NilValue is the value of panic(nil).
NilValue == 0
PanicValues == 0..NumPanicValues
GuardRevisions == {"part_000", "part_001"}

\* The guarded function has finished; `guards` deferred calls are pending.
LspCall(rev, guards, panicking, value) ==
    [at |-> "deferred", rev |-> rev, guards |-> guards, pending |-> guards,
     origPanicking |-> panicking, origValue |-> value,
     panicking |-> panicking, value |-> value, logs |-> <<>>]

\* recover(): the value of the panic in progress, or nil when there is none;
\* the panic is stopped.
Recover(l) == IF l.panicking THEN l.value ELSE NilValue

\* What the guard writes: part_000 a JSON line of level fatal on stderr,
\* part_001 an error entry of the logger; both carry debug.Stack().
LogEntry(rev, r) ==
    [level |-> IF rev = "part_000" THEN "fatal" ELSE "error",
     msg |-> r, stack |-> TRUE]

\* if r := recover(); r != nil { log(r, stack); panic(r) }
LogStructuredPanicEffect(l) ==
    LET r == Recover(l) IN
    IF r # NilValue
    THEN [l EXCEPT !.logs = Append(@, LogEntry(l.rev, r)),
                   !.panicking = TRUE, !.value = r]
    ELSE [l EXCEPT !.panicking = FALSE, !.value = NilValue]

otherThanLsp == <<runtimeVars, ng, crh, rl, evh, app, sig, vf, lateVars>>

\* The innermost pending deferred LogStructuredPanic runs.
LogStructuredPanic ==
    /\ lsp.at = "deferred"
    /\ lsp.pending > 0
    /\ lsp' = [LogStructuredPanicEffect(lsp) EXCEPT
                    !.pending = @ - 1,
                    !.at = IF lsp.pending = 1 THEN "done" ELSE "deferred"]
    /\ UNCHANGED otherThanLsp

InitPanic ==
    /\ InitWith(FALSE)
    /\ ng = NgIdle /\ crh = CrhIdle /\ rl = RlIdle
    /\ evh = EvhIdle /\ app = AppIdle /\ sig = SigIdle /\ vf = VfIdle
    /\ LateIdle
    /\ \E rev \in GuardRevisions, g \in 1..MaxGuards :
        \/ lsp = LspCall(rev, g, FALSE, NilValue)
        \/ \E v \in PanicValues : lsp = LspCall(rev, g, TRUE, v)

NextPanic == LogStructuredPanic

SpecPanic == InitPanic /\ [][NextPanic]_vars

\* C25: when the guarded function panics, the panic goes on past every
\* guard with its value, and every guard has logged the value with the
\* stack; when it returns, no guard logs or panics.
C25_PanicNotSwallowed ==
    lsp.at = "done" =>
        IF lsp.origPanicking
        THEN /\ lsp.panicking /\ lsp.value = lsp.origValue
             /\ Len(lsp.logs) = lsp.guards
             /\ \A i \in 1..Len(lsp.logs) :
                    lsp.logs[i].msg = lsp.origValue /\ lsp.logs[i].stack
        ELSE ~lsp.panicking /\ lsp.logs = <<>>

\* ------------------------------------------- Context after construction
\* NewGeneric hands every constructor a Context whose Informers field is the
\* map that it then stores in Generic.Informers; a controller keeps its
\* Context and can call it from Run or Process.  ng.informers is that one
\* map, ng.controllers the keys of the holders map Run dispatches from.

\* Generic.Run begins stage 1: it ranges over g.Informers.
GenericRunBegin ==
    /\ ng.at = "done"
    /\ ng.ret = "generic"
    /\ ng' = [ng EXCEPT !.at = "running"]
    /\ UNCHANGED <<runtimeVars, crh, rl, moreVars>>

\* c.Informers[gvk] = inf, unless the GVK is registered (an error).
RegisterInformerEffect(n, gvk) ==
    IF gvk \in n.informers THEN n
    ELSE [n EXCEPT !.informers = @ \cup {gvk}]

\* A constructed controller or server calls Context.RegisterInformer.
ContextRegisterInformer(gvk) ==
    /\ ng.at \in {"done", "running"}
    /\ ng.ret = "generic"
    /\ ng' = RegisterInformerEffect(ng, gvk)
    /\ UNCHANGED <<runtimeVars, crh, rl, moreVars>>

\* Context.MainInformer and Context.MainClusterInformer: the registered
\* informer, or a new one that is registered.
ContextMainInformer(gvk) ==
    /\ ng.at \in {"done", "running"}
    /\ ng.ret = "generic"
    /\ ng' = IF gvk \in ng.informers THEN ng
             ELSE RegisterInformerEffect(ng, gvk)
    /\ UNCHANGED <<runtimeVars, crh, rl, moreVars>>

NextContext ==
    \/ NewGenericConstruct
    \/ NewGenericReturn
    \/ GenericRunBegin
    \/ \E gvk \in Gvks : ContextRegisterInformer(gvk)
    \/ \E gvk \in Gvks : ContextMainInformer(gvk)

SpecContext == InitNewGeneric /\ [][NextContext]_vars

\* C26: once Generic.Run has begun, no step changes the set of keys of the
\* informers map or of the controllers map of the runtime.
C26_MapsFrozenAfterRun ==
    [][ng.at = "running" =>
        /\ ng'.informers = ng.informers
        /\ ng'.controllers = ng.controllers]_vars

\* ------------------------------------- Generic.Run, the earlier revision
\* The revision of Generic.Run kept beside the current one differs in what
\* it returns: nil from the two cancelled waits, and srvErr, which only a
\* failing server sets, after <-ctx.Done().  Its servers stage runs nothing
\* when no server is registered and is not counted in stages.

\* if !cache.WaitForCacheSync(...) { return nil }
RunCacheSyncCancelledOld ==
    /\ pc = "waitSync"
    /\ syncWait # {}
    /\ CacheSyncFalse
    /\ retErr' = "none"
    /\ pc' = "shutDown"
    /\ UNCHANGED <<ctxDone, stages, sd, syncWait, readyWait, infVars, ctlVars,
                   wrkVars, q, histVars, cancelledEarly,
                   lateAdd, compVars>>

\* case <-ctx.Done(): return nil
RunReadyCancelledOld ==
    /\ pc = "waitReady"
    /\ readyWait # {}
    /\ DoneCase
    /\ retErr' = "none"
    /\ pc' = "shutDown"
    /\ UNCHANGED <<ctxDone, stages, sd, syncWait, readyWait, infVars, ctlVars,
                   wrkVars, q, histVars, cancelledEarly,
                   lateAdd, compVars>>

\* var srvErr error; no server runs; <-ctx.Done(); return srvErr
RunCancelledOld ==
    /\ pc = "running"
    /\ ctxDone
    /\ retErr' = "none"
    /\ pc' = "shutDown"
    /\ UNCHANGED <<ctxDone, stages, sd, syncWait, readyWait, infVars, ctlVars,
                   wrkVars, q, histVars, cancelledEarly,
                   lateAdd, compVars>>

RunStepOld ==
    \/ RunStartInformers
    \/ \E i \in Informers : RunCacheSynced(i)
    \/ RunCacheSyncCancelledOld
    \/ RunStartControllers
    \/ \E c \in Controllers : RunControllerReady(c)
    \/ RunReadyCancelledOld
    \/ RunStartWorkers
    \/ RunCancelledOld
    \/ RunQueueShutDown
    \/ StagerCancel
    \/ StagerWait

NextOld ==
    \/ RunStepOld
    \/ Cancel
    \/ \E i \in Informers : InformerSync(i)
    \/ \E i \in Informers : InformerExit(i)
    \/ \E c \in Controllers : ControllerReady(c)
    \/ \E c \in Controllers : ControllerExit(c)
    \/ \E k \in TypedKeys : GenericHandlerEvent(k)
    \/ \E k \in TypedKeys : WindowElapsed(k)
    \/ \E k \in TypedKeys : BackoffElapsed(k)
    \/ \E w \in Workers : WorkerStep(w)

SpecOld == Init /\ [][NextOld]_vars

\* Run has left its body: the deferred calls run or it has returned.
RunLeft == pc \in {"shutDown", "cancelStage", "waitStage", "returned"}

\* C27: when Run leaves its body after the workers were started, the
\* context is cancelled and the error Run returns is the cancellation
\* error.
C27_ReturnsCancellationError ==
    (RunLeft /\ stages = 3) => (ctxDone /\ retErr = "Canceled")

\* ------------------------------------------------ App.Run, leader election
\* App.Run from the start of the auxiliary server on.  ctxDone is the
\* context passed to App.Run, cancelled the context that App.Run derives
\* from it (cancel), leCancelled the context that startLeaderElection derives
\* from that one (ctxRet).  lock is the leader election lock, which other
\* candidates may hold.
ElectOutcomes == {"ok", "hostname", "elector"}
OtherCandidates == 1..NumOtherCandidates
NoHolder == 0
Self == NumOtherCandidates + 1

AppStart(leaderElect, elect) ==
    [at |-> "start", leaderElect |-> leaderElect, elect |-> elect,
     ctxDone |-> FALSE, cancelled |-> FALSE, leCancelled |-> FALSE,
     stageDone |-> FALSE, aux |-> "idle", auxErr |-> "none",
     lock |-> NoHolder, le |-> "idle", startedLeading |-> FALSE,
     generic |-> "idle", genericUnderLe |-> FALSE, retErr |-> "none",
     cancelledFirst |-> FALSE]

\* <-ctx.Done() of the context App.Run derives.
AppCtxDone(a) == a.ctxDone \/ a.cancelled

\* <-ctxRet.Done() of the context startLeaderElection returns.
LeCtxDone(a) == AppCtxDone(a) \/ a.leCancelled

\* The context generic.Run was called with is done.
GenericCtxDone(a) == IF a.genericUnderLe THEN LeCtxDone(a) ELSE AppCtxDone(a)

otherThanApp == <<runtimeVars, ng, crh, rl, evh, lsp, sig, vf, lateVars>>

\* stage.StartWithContext(auxSrv.Run); then, with leader election,
\* startLeaderElection: an error of os.Hostname or NewLeaderElector is
\* returned, otherwise `go le.Run()`.  Without leader election
\* generic.Run(ctx) is called at once.
AppRunStart ==
    /\ app.at = "start"
    /\ app' = IF ~app.leaderElect
              THEN [app EXCEPT !.aux = "running", !.at = "generic",
                               !.generic = "running"]
              ELSE IF app.elect # "ok"
              THEN [app EXCEPT !.aux = "running", !.at = "deferred",
                               !.retErr = app.elect]
              ELSE [app EXCEPT !.aux = "running", !.at = "select",
                               !.le = "acquiring"]
    /\ UNCHANGED otherThanApp

\* The caller cancels the context passed to App.Run.
AppCancel ==
    /\ app.at # "idle"
    /\ ~app.ctxDone
    /\ app' = [app EXCEPT !.ctxDone = TRUE,
                          !.cancelledFirst =
                              @ \/ (~AppCtxDone(app) /\ app.le \in {"idle", "acquiring"})]
    /\ UNCHANGED otherThanApp

\* auxSrv.Run returns an error by itself: auxErr = err, then the deferred
\* cancel().
AuxFail ==
    /\ app.aux = "running"
    /\ app' = [app EXCEPT !.aux = "stopped", !.auxErr = "aux",
                          !.cancelled = TRUE,
                          !.cancelledFirst =
                              @ \/ (~AppCtxDone(app) /\ app.le \in {"idle", "acquiring"})]
    /\ UNCHANGED otherThanApp

\* auxSrv.Run returns once the stage's context is cancelled, with or
\* without an error.
AuxStop(err) ==
    /\ app.aux = "running"
    /\ app.stageDone
    /\ app' = [app EXCEPT !.aux = "stopped", !.auxErr = err,
                          !.cancelled = TRUE]
    /\ UNCHANGED otherThanApp

\* Another candidate takes the free lock.
OtherAcquire(c) ==
    /\ app.at # "idle"
    /\ app.lock = NoHolder
    /\ app' = [app EXCEPT !.lock = c]
    /\ UNCHANGED otherThanApp

\* The candidate holding the lock gives it up.
OtherRelease ==
    /\ app.at # "idle"
    /\ app.lock \in OtherCandidates
    /\ app' = [app EXCEPT !.lock = NoHolder]
    /\ UNCHANGED otherThanApp

\* le.Run() acquires the lock and calls OnStartedLeading:
\* close(startedLeading).
OnStartedLeading ==
    /\ app.le = "acquiring"
    /\ app.lock = NoHolder
    /\ app' = [app EXCEPT !.lock = Self, !.le = "leading",
                          !.startedLeading = TRUE]
    /\ UNCHANGED otherThanApp

\* le.Run() fails to renew and calls OnStoppedLeading: cancel().
OnStoppedLeading ==
    /\ app.le = "leading"
    /\ app' = [app EXCEPT !.lock = NoHolder, !.le = "lost",
                          !.leCancelled = TRUE]
    /\ UNCHANGED otherThanApp

\* select: case <-ctx.Done(): return ctx.Err()
AppSelectDone ==
    /\ app.at = "select"
    /\ LeCtxDone(app)
    /\ app' = [app EXCEPT !.at = "deferred", !.retErr = "Canceled"]
    /\ UNCHANGED otherThanApp

\* select: case <-startedLeading: and then return generic.Run(ctx)
AppSelectLeading ==
    /\ app.at = "select"
    /\ app.startedLeading
    /\ app' = [app EXCEPT !.at = "generic", !.generic = "running",
                          !.genericUnderLe = TRUE]
    /\ UNCHANGED otherThanApp

\* generic.Run returns the cancellation error of its context.
AppGenericReturn ==
    /\ app.at = "generic"
    /\ GenericCtxDone(app)
    /\ app' = [app EXCEPT !.at = "deferred", !.generic = "returned",
                          !.retErr = "Canceled"]
    /\ UNCHANGED otherThanApp

\* The deferred cancel() and the cancellation of the stage by
\* stgr.Shutdown().
AppDeferredCancel ==
    /\ app.at = "deferred"
    /\ app' = [app EXCEPT !.at = "shutdown", !.cancelled = TRUE,
                          !.stageDone = TRUE]
    /\ UNCHANGED otherThanApp

\* stgr.Shutdown() has waited for the auxiliary server; the deferred
\* function puts auxErr in place of a cancellation error.
AppReturn ==
    /\ app.at = "shutdown"
    /\ app.aux = "stopped"
    /\ app' = [app EXCEPT !.at = "returned",
                          !.retErr = IF app.auxErr # "none" /\ @ = "Canceled"
                                     THEN app.auxErr ELSE @]
    /\ UNCHANGED otherThanApp

InitApp ==
    /\ InitWith(FALSE)
    /\ ng = NgIdle /\ crh = CrhIdle /\ rl = RlIdle
    /\ evh = EvhIdle /\ lsp = LspIdle /\ sig = SigIdle /\ vf = VfIdle
    /\ LateIdle
    /\ \E leaderElect \in BOOLEAN, elect \in ElectOutcomes :
            app = AppStart(leaderElect, elect)

NextApp ==
    \/ AppRunStart
    \/ AppCancel
    \/ AuxFail
    \/ \E err \in {"none", "aux"} : AuxStop(err)
    \/ \E c \in OtherCandidates : OtherAcquire(c)
    \/ OtherRelease
    \/ OnStartedLeading
    \/ OnStoppedLeading
    \/ AppSelectDone
    \/ AppSelectLeading
    \/ AppGenericReturn
    \/ AppDeferredCancel
    \/ AppReturn

SpecApp == InitApp /\ [][NextApp]_vars

\* C28: with leader election, when the context was cancelled before
\* leadership was acquired, generic.Run is never called.
C28_CancelledFirstNeverStarts ==
    (app.at # "idle" /\ app.leaderElect /\ app.cancelledFirst)
        => app.generic = "idle"

\* With leader election, generic.Run is only called after leadership was
\* acquired, and after leadership was lost the context it runs under is
\* done.
AppLeaderOrder ==
    app.at # "idle" =>
        /\ (app.leaderElect /\ app.generic # "idle") => app.le \in {"leading", "lost"}
        /\ (app.le = "lost" /\ app.generic # "idle") => GenericCtxDone(app)

\* ------------------------------------------------------ CancelOnInterrupt
\* CancelOnInterrupt(ctx, f) after signal.Notify(c, os.Interrupt, SIGTERM)
\* and `go func() { select {...} }()`.  c has room for one signal; the
\* signal package drops a signal that finds c full.  In run() of main.go f
\* cancels ctx itself (fCancels); other callers pass any function.
Signals == {"interrupt", "sigterm"}
NoSignal == "none"

SigStart(fCancels) ==
    [at |-> "select", fCancels |-> fCancels, ctxDone |-> FALSE,
     c |-> NoSignal, received |-> <<>>, fCalls |-> 0, doneFirst |-> FALSE]

otherThanSig == <<runtimeVars, ng, crh, rl, evh, lsp, app, vf, lateVars>>

\* The process receives signal s; the signal package sends it on c without
\* blocking.
SignalReceived(s) ==
    /\ sig.at # "idle"
    /\ Len(sig.received) < MaxSignals
    /\ sig' = [sig EXCEPT !.received = Append(@, s),
                          !.c = IF @ = NoSignal THEN s ELSE @,
                          !.doneFirst = IF sig.received = <<>>
                                        THEN sig.ctxDone ELSE @]
    /\ UNCHANGED otherThanSig

\* ctx is cancelled by someone else than f.
SigCtxCancel ==
    /\ sig.at # "idle"
    /\ ~sig.ctxDone
    /\ sig' = [sig EXCEPT !.ctxDone = TRUE]
    /\ UNCHANGED otherThanSig

\* select: case <-ctx.Done(): the goroutine returns.
SigSelectDone ==
    /\ sig.at = "select"
    /\ sig.ctxDone
    /\ sig' = [sig EXCEPT !.at = "exited"]
    /\ UNCHANGED otherThanSig

\* select: case <-c: f(), and the goroutine returns.
SigSelectSignal ==
    /\ sig.at = "select"
    /\ sig.c # NoSignal
    /\ sig' = [sig EXCEPT !.at = "exited", !.c = NoSignal,
                          !.fCalls = @ + 1,
                          !.ctxDone = @ \/ sig.fCancels]
    /\ UNCHANGED otherThanSig

InitSignals ==
    /\ InitWith(FALSE)
    /\ ng = NgIdle /\ crh = CrhIdle /\ rl = RlIdle
    /\ evh = EvhIdle /\ lsp = LspIdle /\ app = AppIdle /\ vf = VfIdle
    /\ LateIdle
    /\ \E fCancels \in BOOLEAN : sig = SigStart(fCancels)

NextSignals ==
    \/ \E s \in Signals : SignalReceived(s)
    \/ SigCtxCancel
    \/ SigSelectDone
    \/ SigSelectSignal

SpecSignals == InitSignals /\ [][NextSignals]_vars

\* C29: f is called at most once, and it is not called at all when ctx was
\* done before the first signal arrived.
C29_AtMostOnceNeverAfterDone ==
    sig.at # "idle" =>
        /\ sig.fCalls <= 1
        /\ sig.doneFirst => sig.fCalls = 0

\* f is called at most once, and only after a signal was received.
SigAtMostOnce ==
    sig.at # "idle" =>
        /\ sig.fCalls <= 1
        /\ sig.fCalls = 1 => sig.received # <<>>

\* ----------------------------------------------------------- ValidateFlags
\* flagutil.ValidateFlags(fs, args) for the flag set of its test: a boolean
\* flag f and a string flag s.  A token is a sequence of atoms: dashes, a
\* flag name, "=", or a word.
BoolFlags == {"f"}
StringFlags == {"s"}
Words == {"string", "true", "false", "bla", "crap"}
Tokens ==
    {<<"-", "f">>, <<"-", "f", "=", "true">>, <<"-", "-", "f", "=", "true">>,
     <<"-", "s">>, <<"-", "-", "s">>}
    \cup {<<w>> : w \in Words}
ArgLists == UNION {[1..n -> Tokens] : n \in 0..MaxArgs}

NoError == <<>>
NoFlag == ""

\* invalid value following flag -f: "<value>"; boolean flags must be passed
\* as -flag=x
ErrValueAfterBool(name, value) ==
    <<"invalid value following flag -", name, ": \"">> \o value
        \o <<"\"; boolean flags must be passed as -flag=x">>

\* invalid flag: <token>
ErrInvalidFlag(token) == <<"invalid flag: ">> \o token

\* The number of leading dashes of a token (flags have one or two).
Dashes(t) ==
    IF Len(t) >= 2 /\ t[1] = "-" /\ t[2] = "-" THEN 2
    ELSE IF Len(t) >= 1 /\ t[1] = "-" THEN 1
    ELSE 0

IsFlagToken(t) == Dashes(t) > 0 /\ Len(t) > Dashes(t)
FlagName(t) == t[Dashes(t) + 1]
HasInlineValue(t) == Len(t) > Dashes(t) + 1 /\ t[Dashes(t) + 2] = "="

VfStart(args) ==
    [at |-> "scan", args |-> args, i |-> 1, expect |-> FALSE,
     prev |-> NoFlag, err |-> NoError]

VfFail(v, e) == [v EXCEPT !.at = "done", !.err = e]

\* Mutant of ValidateFlagsBody: a word after a boolean flag is taken as
\* its value.
ValidateFlagsBodyBoolTakesValue(v) ==
    LET t == v.args[v.i] IN
    IF v.expect \/ (~IsFlagToken(t) /\ v.prev # NoFlag)
    THEN [v EXCEPT !.expect = FALSE, !.prev = NoFlag, !.i = @ + 1]
    ELSE IF ~IsFlagToken(t) THEN VfFail(v, ErrInvalidFlag(t))
    ELSE IF FlagName(t) \in BoolFlags
    THEN [v EXCEPT !.prev = IF HasInlineValue(t) THEN NoFlag ELSE FlagName(t),
                   !.i = @ + 1]
    ELSE [v EXCEPT !.expect = ~HasInlineValue(t), !.prev = NoFlag,
                   !.i = @ + 1]

\* The scan of one argument: the value of the preceding non-boolean flag, a
\* flag, or an error.
ValidateFlagsBody(v) ==
    LET t == v.args[v.i] IN
    IF v.expect
    THEN [v EXCEPT !.expect = FALSE, !.prev = NoFlag, !.i = @ + 1]
    ELSE IF ~IsFlagToken(t)
    THEN IF v.prev # NoFlag
         THEN VfFail(v, ErrValueAfterBool(v.prev, t))
         ELSE VfFail(v, ErrInvalidFlag(t))
    ELSE IF FlagName(t) \in BoolFlags
    THEN [v EXCEPT !.prev = IF HasInlineValue(t) THEN NoFlag ELSE FlagName(t),
                   !.i = @ + 1]
    ELSE [v EXCEPT !.expect = ~HasInlineValue(t), !.prev = NoFlag,
                   !.i = @ + 1]

otherThanVf == <<runtimeVars, ng, crh, rl, evh, lsp, app, sig, lateVars>>

ValidateFlagsScan ==
    /\ vf.at = "scan"
    /\ vf.i <= Len(vf.args)
    /\ vf' = ValidateFlagsBody(vf)
    /\ UNCHANGED otherThanVf

\* return nil
ValidateFlagsReturn ==
    /\ vf.at = "scan"
    /\ vf.i > Len(vf.args)
    /\ vf' = [vf EXCEPT !.at = "done"]
    /\ UNCHANGED otherThanVf

InitFlags ==
    /\ InitWith(FALSE)
    /\ ng = NgIdle /\ crh = CrhIdle /\ rl = RlIdle
    /\ evh = EvhIdle /\ lsp = LspIdle /\ app = AppIdle /\ sig = SigIdle
    /\ LateIdle
    /\ \E args \in ArgLists : vf = VfStart(args)

NextFlags == ValidateFlagsScan \/ ValidateFlagsReturn

SpecFlags == InitFlags /\ [][NextFlags]_vars

\* The cases of TestValidateFlags that fit MaxArgs, with the expected
\* error (NoError for a valid list).
TestCases ==
    {[args |-> <<<<"-", "f", "=", "true">>, <<"-", "s">>, <<"string">>>>,
      error |-> NoError],
     [args |-> <<<<"-", "f">>, <<"-", "s">>, <<"string">>>>,
      error |-> NoError],
     [args |-> <<<<"-", "s">>, <<"string">>, <<"-", "f">>>>,
      error |-> NoError],
     [args |-> <<<<"-", "-", "f", "=", "true">>, <<"-", "-", "s">>,
                 <<"string">>>>,
      error |-> NoError],
     [args |-> <<<<"-", "f">>, <<"true">>, <<"-", "s">>, <<"string">>>>,
      error |-> ErrValueAfterBool("f", <<"true">>)],
     [args |-> <<<<"-", "f">>, <<"false">>, <<"-", "s">>, <<"string">>>>,
      error |-> ErrValueAfterBool("f", <<"false">>)],
     [args |-> <<<<"-", "f">>, <<"bla">>, <<"-", "s">>, <<"string">>>>,
      error |-> ErrValueAfterBool("f", <<"bla">>)],
     [args |-> <<<<"crap">>, <<"-", "f">>, <<"-", "s">>, <<"string">>>>,
      error |-> ErrInvalidFlag(<<"crap">>)]}

\* Argument i of args is the value of a preceding non-boolean flag.
RECURSIVE IsValueOf(_, _)
IsValueOf(args, i) ==
    /\ i > 1
    /\ ~IsValueOf(args, i - 1)
    /\ IsFlagToken(args[i - 1])
    /\ FlagName(args[i - 1]) \in StringFlags
    /\ ~HasInlineValue(args[i - 1])

\* The arguments that are neither a flag nor the value of a flag.
Misplaced(args) ==
    {i \in 1..Len(args) : ~IsValueOf(args, i) /\ ~IsFlagToken(args[i])}

\* Argument i is a boolean flag without an inline value, in flag position.
IsBareBool(args, i) ==
    /\ i >= 1
    /\ ~IsValueOf(args, i)
    /\ IsFlagToken(args[i])
    /\ FlagName(args[i]) \in BoolFlags
    /\ ~HasInlineValue(args[i])

\* C30: ValidateFlags returns nil exactly for the lists in which every
\* token is a flag or the value of a preceding non-boolean flag (so -f,
\* -f=x and --f=x are accepted, also last); a word right after a boolean
\* flag is rejected with "invalid value following flag", a leading word
\* with "invalid flag"; and the cases of the test get their expected result.
C30_ValidateFlags ==
    vf.at = "done" =>
        LET args == vf.args
            bad == Misplaced(args)
            first == CHOOSE i \in bad : \A j \in bad : i <= j
        IN  /\ (vf.err = NoError) <=> (bad = {})
            /\ (bad # {} /\ IsBareBool(args, first - 1)) =>
                   vf.err = ErrValueAfterBool(FlagName(args[first - 1]),
                                              args[first])
            /\ (bad # {} /\ first = 1) => vf.err = ErrInvalidFlag(args[1])
            /\ \A c \in TestCases : c.args = args => vf.err = c.error

\* The scan has rejected -f true -s string with the error of the test.
C30_Witness ==
    /\ vf.at = "done"
    /\ vf.args = <<<<"-", "f">>, <<"true">>, <<"-", "s">>, <<"string">>>>
    /\ vf.err = ErrValueAfterBool("f", <<"true">>)

\* C31: NewGeneric returns either a runtime and no error, or no runtime
\* and an error.
C31_ErrorIffNoRuntime ==
    ng.at = "done" => ((ng.ret = "nil") <=> (ng.err # "none"))

\* ------------------------- ControlledResourceHandler, unnamed candidates
\* The index may also return controller objects whose name is empty.
CandidateKeys == [ns : Namespaces, name : OwnerNames \cup {""}]

WideIndexResults ==
    {[kind |-> "nil", list |-> <<>>], [kind |-> "error", list |-> <<>>]}
    \cup [kind : {"ok"}, list : BoundedSeq(CandidateKeys, MaxCandidates)]

InitHandlerWide ==
    /\ InitWith(FALSE)
    /\ ng = NgIdle /\ rl = RlIdle /\ MoreIdle
    /\ \E index \in WideIndexResults :
        \/ \E new \in Objects : crh = CrhEvent("add", "live", new, new, index)
        \/ \E old, new \in Objects :
              /\ old.ns = new.ns
              /\ crh = CrhEvent("update", "live", old, new, index)
        \/ \E new \in Objects, p \in Payloads :
              crh = CrhEvent("delete", p, new, new, index)

SpecHandlerWide == InitHandlerWide /\ [][NextHandler]_vars

\* The controller owner reference of obj names another type than the
\* handler's ControllerGvk.
Foreign(obj) == obj.ref.set /\ ~Owned(obj)

\* The candidates of the index that have a name, in the order returned.
NamedCandidates(index) ==
    IF index.kind = "ok"
    THEN SelectSeq(index.list, LAMBDA k : k.name # "")
    ELSE <<>>

\* One state is resolved by the event: an add, a delete of an object or
\* tombstone, or an update between two states without matching owner.
ResolvesNewOnly ==
    \/ Handled("add")
    \/ Handled("delete") /\ crh.payload \in {"live", "tombstone"}
    \/ Handled("update") /\ ~Owned(crh.old)

\* C32: for an object whose controller owner reference is of another type,
\* the handler adds exactly the named candidates of the index, each under
\* its own namespace and never the foreign owner's key as such, with one
\* lookup; without an index it adds nothing and makes no lookup.
C32_ForeignOwnerLikeNone ==
    (ResolvesNewOnly /\ Foreign(crh.new))
    => /\ crh.adds = NamedCandidates(crh.index)
       /\ crh.lookups = IF crh.index.kind = "nil" THEN 0 ELSE 1
       /\ crh.adds = EnqueueMapped([crh.new EXCEPT !.ref = NoRef],
                                   crh.index).adds

\* An object with a foreign owner was added; the index returned an unnamed
\* and a named candidate, and only the named one was added.
C32_Witness ==
    /\ Handled("add") /\ Foreign(crh.new)
    /\ crh.index.kind = "ok" /\ Len(crh.index.list) = 2
    /\ crh.index.list[1].name = "" /\ crh.index.list[2].name # ""
    /\ crh.adds = <<crh.index.list[2]>>
    /\ crh.adds[1].ns # crh.new.ns

\* The owner name the handler resolves for obj ("" without matching owner).
ResolvedName(obj) == IF Owned(obj) THEN obj.ref.name ELSE ""

\* What the resolution of one state adds, and the lookups it makes.
StateAdds(obj) ==
    IF Owned(obj) THEN <<OwnerKey(obj)>> ELSE NamedCandidates(crh.index)

StateLookups(obj) ==
    IF Owned(obj) \/ crh.index.kind = "nil" THEN 0 ELSE 1

\* C33: OnUpdate resolves the new state alone when old and new resolve to
\* the same owner name (one owner key, or one lookup of the index), and
\* the old state before the new one when the names differ (the named
\* owner's key and, for the state without owner, the index candidates).
C33_OldResolvedIffNameDiffers ==
    Handled("update") =>
        IF ResolvedName(crh.old) = ResolvedName(crh.new)
        THEN /\ crh.adds = StateAdds(crh.new)
             /\ crh.lookups = StateLookups(crh.new)
        ELSE /\ crh.adds = StateAdds(crh.old) \o StateAdds(crh.new)
             /\ crh.lookups = StateLookups(crh.old) + StateLookups(crh.new)

\* An update that removed the owner reference was handled: the old owner's
\* key and the candidate of the index were added, with one lookup.
C33_Witness ==
    /\ Handled("update")
    /\ Owned(crh.old) /\ ~crh.new.ref.set
    /\ crh.index.kind = "ok" /\ Len(crh.index.list) = 1
    /\ crh.index.list[1].name # ""
    /\ crh.adds = <<OwnerKey(crh.old), crh.index.list[1]>>
    /\ crh.lookups = 1

\* ------------------------------------------ NewGeneric, what it leaves
\* The GVKs for which some constructor builds a controller, and the GVKs
\* for which some constructor registers an informer.
AllBindings ==
    {ng.constructors[i].gvk :
        i \in {j \in 1..NumConstructors : HasInterface(ng.constructors[j])}}

AllRegistered == UNION {ng.constructors[i].registers : i \in 1..NumConstructors}

\* The handlers the runtime attached to the informer of GVK g.
AttachedTo(g) == {k \in 1..Len(ng.attached) : ng.attached[k].informer = g}

\* C34: after a successful NewGeneric every GVK with a controller binding
\* has an informer, exactly one attached GenericHandler, which feeds the
\* queue partition of that GVK, and the maps seen through the Context of
\* every constructor hold the bindings and informers of all constructors.
C34_BindingsComplete ==
    (ng.at \in {"done", "running"} /\ ng.ret = "generic")
    => /\ ng.controllers = AllBindings
       /\ \A g \in ng.controllers :
            /\ g \in ng.informers
            /\ Cardinality(AttachedTo(g)) = 1
            /\ \A k \in AttachedTo(g) : ng.attached[k].queue = g
       /\ Len(ng.contexts) = NumConstructors
       /\ \A i \in 1..Len(ng.contexts) :
            /\ ContextView(ng, i).controllers = AllBindings
            /\ AllRegistered \subseteq ContextView(ng, i).informers

\* NewGeneric succeeded for two controllers of different GVKs, the second
\* of which registered both informers after the first was constructed.
C34_Witness ==
    /\ ng.at = "done" /\ ng.ret = "generic"
    /\ ng.controllers = {1, 2}
    /\ ng.constructors[1].registers = {1}
    /\ ng.constructors[2].registers = {1, 2}
    /\ ContextView(ng, 1).informers = {1, 2}
    /\ Len(ng.attached) = 2

\* C36: after NewGeneric the caller's config.Logger carries no GVK field,
\* every constructor was given a logger with its own GVK field only, and
\* the logger of the runtime carries no GVK field.
C36_ConfigUnchanged ==
    (ng.at = "done" /\ ng.ret = "generic")
    => /\ ng.configLogger = <<>>
       /\ \A i \in 1..Len(ng.given) : ng.given[i] = <<ng.constructors[i].gvk>>
       /\ ng.runtimeLogger = <<>>

\* ----------------------------------------------- Generic.Run, server stage
\* The loop `for _, srv := range g.Servers` that starts one goroutine per
\* server.  The current revision copies srv.Server into a variable of the
\* iteration before the goroutine is started; the earlier revision's
\* goroutine reads the loop variable srv when it gets to run, while the
\* loop goes on assigning it.
Servers == 1..NumServers
ServerRevisions == {"part_004", "part_005"}
NoServer == 0

SrvStart(rev) ==
    [at |-> "loop", rev |-> rev, remaining |-> Servers, srv |-> NoServer,
     goroutines |-> <<>>, runs |-> [x \in Servers |-> 0]]

otherThanSrv == <<runtimeVars, ng, crh, rl, evh, lsp, app, sig, vf, cx, mn>>

\* What the goroutine of an iteration holds: the server itself, or nothing
\* but access to the loop variable.
Captured(rev, x) == IF rev = "part_004" THEN x ELSE NoServer

\* One iteration: srv is assigned the next server of the map (in any
\* order) and a goroutine is started.
ServerLoopNext(x) ==
    /\ srv.at = "loop"
    /\ x \in srv.remaining
    /\ srv' = [srv EXCEPT !.remaining = @ \ {x}, !.srv = x,
                          !.goroutines =
                              Append(@, [captured |-> Captured(srv.rev, x),
                                         ran |-> FALSE])]
    /\ UNCHANGED otherThanSrv

\* The loop is over; Run waits (group.Wait(), <-ctx.Done()).
ServerLoopEnd ==
    /\ srv.at = "loop"
    /\ srv.remaining = {}
    /\ srv' = [srv EXCEPT !.at = "wait"]
    /\ UNCHANGED otherThanSrv

\* The server whose Run goroutine g calls.
ServerOf(g) ==
    IF srv.goroutines[g].captured # NoServer
    THEN srv.goroutines[g].captured
    ELSE srv.srv

\* Goroutine g gets to run and calls Run of its server.
ServerGoroutineRun(g) ==
    /\ g \in 1..Len(srv.goroutines)
    /\ ~srv.goroutines[g].ran
    /\ srv' = [srv EXCEPT !.goroutines[g].ran = TRUE,
                          !.runs[ServerOf(g)] = @ + 1]
    /\ UNCHANGED otherThanSrv

\* Every goroutine has called Run and the stage is over.
ServerStageDone ==
    /\ srv.at = "wait"
    /\ \A g \in 1..Len(srv.goroutines) : srv.goroutines[g].ran
    /\ srv' = [srv EXCEPT !.at = "done"]
    /\ UNCHANGED otherThanSrv

InitServers ==
    /\ InitWith(FALSE)
    /\ ng = NgIdle /\ crh = CrhIdle /\ rl = RlIdle
    /\ evh = EvhIdle /\ lsp = LspIdle /\ app = AppIdle /\ sig = SigIdle
    /\ vf = VfIdle /\ cx = CxIdle /\ mn = MnIdle
    /\ \E rev \in ServerRevisions : srv = SrvStart(rev)

NextServers ==
    \/ \E x \in Servers : ServerLoopNext(x)
    \/ ServerLoopEnd
    \/ \E g \in 1..NumServers : ServerGoroutineRun(g)
    \/ ServerStageDone

SpecServers == InitServers /\ [][NextServers]_vars

\* C37: when the server stage is over, Run of every registered server has
\* been called exactly once.
C37_EveryServerRunsOnce ==
    srv.at = "done" => \A x \in Servers : srv.runs[x] = 1

\* ------------------------------- App.Run over the earlier Generic.Run
\* generic.Run of the earlier revision returns nil once its context is
\* done and no server failed (RunCancelledOld).
AppGenericReturnOld ==
    /\ app.at = "generic"
    /\ GenericCtxDone(app)
    /\ app' = [app EXCEPT !.at = "deferred", !.generic = "returned",
                          !.retErr = "nil"]
    /\ UNCHANGED otherThanApp

NextAppOld ==
    \/ AppRunStart
    \/ AppCancel
    \/ AuxFail
    \/ \E err \in {"none", "aux"} : AuxStop(err)
    \/ \E c \in OtherCandidates : OtherAcquire(c)
    \/ OtherRelease
    \/ OnStartedLeading
    \/ OnStoppedLeading
    \/ AppSelectDone
    \/ AppSelectLeading
    \/ AppGenericReturnOld
    \/ AppDeferredCancel
    \/ AppReturn

SpecAppOld == InitApp /\ [][NextAppOld]_vars

\* C38: when the auxiliary server has returned an error, the application's
\* context is cancelled, and App.Run, once the runtime has returned, returns
\* the auxiliary server's error; the error is read when the goroutine of
\* the auxiliary server has finished.
C38_AuxErrorReturned ==
    /\ (app.at # "idle" /\ app.auxErr # "none") => app.cancelled
    /\ (app.at = "returned" /\ app.auxErr # "none" /\ app.generic = "returned")
        => app.retErr = app.auxErr
    /\ app.at = "returned" => app.aux = "stopped"

\* ------------------------------------ Context: registration of informers
\* Context.Informers as a map from GVK to an informer value.  The values
\* are interface values: NilInformer is the nil interface, which a caller
\* may register and a factory may return.  A key that is absent and a key
\* that holds nil read the same with `inf := c.Informers[gvk]`, but differ
\* for `_, ok := c.Informers[gvk]`.
NilInformer == 0
InformerValues == 0..NumInformerValues
NoGvk == 0

MapGet(m, gvk) == IF gvk \in DOMAIN m THEN m[gvk] ELSE NilInformer
MapSet(m, gvk, informer) == [k \in DOMAIN m \cup {gvk} |-> IF k = gvk THEN informer ELSE m[k]]

CxStart ==
    [at |-> "ctx", Informers |-> <<>>, calls |-> [g \in Gvks |-> 0],
     op |-> "none", gvk |-> NoGvk, before |-> <<>>, invoked |-> FALSE,
     ret |-> NilInformer, err |-> "nil"]

otherThanCx == <<runtimeVars, ng, crh, rl, evh, lsp, app, sig, vf, srv, mn>>

\* Context.RegisterInformer: the map after the call and the error.
RegisterInformer(m, gvk, informer) ==
    IF gvk \in DOMAIN m
    THEN [Informers |-> m, err |-> "registered already"]
    ELSE [Informers |-> MapSet(m, gvk, informer), err |-> "nil"]

\* The body shared by Context.MainInformer and Context.MainClusterInformer;
\* made is what the factory f returns if it is called.
MainInformer(m, gvk, made) ==
    LET informer == MapGet(m, gvk) IN
    IF informer = NilInformer
    THEN LET r == RegisterInformer(m, gvk, made) IN
         IF r.err # "nil"
         THEN [Informers |-> r.Informers, invoked |-> TRUE,
               ret |-> NilInformer, err |-> r.err]
         ELSE [Informers |-> r.Informers, invoked |-> TRUE,
               ret |-> made, err |-> "nil"]
    ELSE [Informers |-> m, invoked |-> FALSE, ret |-> informer, err |-> "nil"]

CxRegisterInformer(gvk, informer) ==
    /\ cx.at = "ctx"
    /\ LET r == RegisterInformer(cx.Informers, gvk, informer) IN
       cx' = [cx EXCEPT !.Informers = r.Informers, !.op = "RegisterInformer",
                        !.gvk = gvk, !.before = cx.Informers,
                        !.invoked = FALSE, !.ret = informer, !.err = r.err]
    /\ UNCHANGED otherThanCx

CxMainEffect(op, gvk, made) ==
    LET r == MainInformer(cx.Informers, gvk, made) IN
    [cx EXCEPT !.Informers = r.Informers, !.op = op, !.gvk = gvk,
               !.before = cx.Informers, !.invoked = r.invoked,
               !.ret = r.ret, !.err = r.err,
               !.calls[gvk] = IF r.invoked THEN @ + 1 ELSE @]

CxMainInformer(gvk, made) ==
    /\ cx.at = "ctx"
    /\ MainInformer(cx.Informers, gvk, made).invoked
           => cx.calls[gvk] < MaxFactoryCalls
    /\ cx' = CxMainEffect("MainInformer", gvk, made)
    /\ UNCHANGED otherThanCx

CxMainClusterInformer(gvk, made) ==
    /\ cx.at = "ctx"
    /\ MainInformer(cx.Informers, gvk, made).invoked
           => cx.calls[gvk] < MaxFactoryCalls
    /\ cx' = CxMainEffect("MainClusterInformer", gvk, made)
    /\ UNCHANGED otherThanCx

InitInformers ==
    /\ InitWith(FALSE)
    /\ ng = NgIdle /\ crh = CrhIdle /\ rl = RlIdle
    /\ evh = EvhIdle /\ lsp = LspIdle /\ app = AppIdle /\ sig = SigIdle
    /\ vf = VfIdle /\ srv = SrvIdle /\ mn = MnIdle
    /\ cx = CxStart

NextInformers ==
    \/ \E gvk \in Gvks, informer \in InformerValues : CxRegisterInformer(gvk, informer)
    \/ \E gvk \in Gvks, made \in InformerValues : CxMainInformer(gvk, made)
    \/ \E gvk \in Gvks, made \in InformerValues : CxMainClusterInformer(gvk, made)

SpecInformers == InitInformers /\ [][NextInformers]_vars

\* RegisterInformer never overwrites: an error and the same map for a key
\* that is present, the informer stored and nil otherwise.
RegisterNeverOverwrites ==
    (cx.at = "ctx" /\ cx.op = "RegisterInformer") =>
        IF cx.gvk \in DOMAIN cx.before
        THEN cx.err # "nil" /\ cx.Informers = cx.before
        ELSE cx.err = "nil" /\ cx.Informers = MapSet(cx.before, cx.gvk, cx.ret)

\* MainInformer and MainClusterInformer hand out an informer that is
\* registered without calling the factory.
MainReturnsRegistered ==
    (cx.at = "ctx" /\ cx.op \in {"MainInformer", "MainClusterInformer"}
        /\ MapGet(cx.before, cx.gvk) # NilInformer) =>
        /\ ~cx.invoked
        /\ cx.err = "nil"
        /\ cx.ret = cx.before[cx.gvk]
        /\ cx.Informers = cx.before

\* C35: RegisterInformer never overwrites a registration, MainInformer and
\* MainClusterInformer return the registered informer of a GVK without
\* invoking the factory, and over any sequence of calls the factory runs at
\* most once for each GVK.
C35_FactoryAtMostOncePerGvk ==
    /\ RegisterNeverOverwrites
    /\ MainReturnsRegistered
    /\ cx.at = "ctx" => \A g \in Gvks : cx.calls[g] <= 1

\* ------------------------------------------------------------- app.Main
\* An error value: the root error and the wrappers added around it, the
\* outermost first (errors.Wrap, errors.WithStack, ...).  Wrapping nil
\* gives nil, so the nil error has no wrappers.
Roots == {"context.Canceled", "context.DeadlineExceeded", "other"}
Wrappers == {"Wrap", "WithStack"}
NilError == [wraps |-> <<>>, root |-> "nil"]
Canceled == [wraps |-> <<>>, root |-> "context.Canceled"]
Errors ==
    {NilError} \cup [wraps : BoundedSeq(Wrappers, MaxWraps), root : Roots]

\* errors.Cause: follows Cause() of the wrappers until an error that has
\* none.
RECURSIVE Cause(_)
Cause(e) ==
    IF e.wraps = <<>> THEN e ELSE Cause([e EXCEPT !.wraps = Tail(@)])

\* The condition of Main compared with the error as returned.
ExitConditionNoCause(e) == e # NilError /\ e # Canceled

\* The condition under which Main prints the error and calls os.Exit(1).
ExitCondition(e) == e # NilError /\ Cause(e) # Canceled

MnStart ==
    [at |-> "main", cancelled |-> FALSE, interrupted |-> FALSE,
     err |-> NilError, printed |-> FALSE, status |-> 0]

otherThanMn == <<runtimeVars, ng, crh, rl, evh, lsp, app, sig, vf, cx, srv>>

\* An interrupt arrives while main runs: the goroutine of
\* CancelOnInterrupt calls cancelFunc.
MnInterrupt ==
    /\ mn.at = "main"
    /\ ~mn.interrupted
    /\ mn' = [mn EXCEPT !.interrupted = TRUE, !.cancelled = TRUE]
    /\ UNCHANGED otherThanMn

\* main(ctx) returns e; the deferred cancelFunc of run cancels ctx.
MnRunReturn(e) ==
    /\ mn.at = "main"
    /\ mn' = [mn EXCEPT !.at = "returned", !.err = e, !.cancelled = TRUE]
    /\ UNCHANGED otherThanMn

\* Main prints the error and exits with status 1.
MnExit ==
    /\ mn.at = "returned"
    /\ ExitCondition(mn.err)
    /\ mn' = [mn EXCEPT !.at = "exited", !.printed = TRUE, !.status = 1]
    /\ UNCHANGED otherThanMn

\* Main returns to its caller: the process ends with status 0.
MnReturn ==
    /\ mn.at = "returned"
    /\ ~ExitCondition(mn.err)
    /\ mn' = [mn EXCEPT !.at = "exited", !.status = 0]
    /\ UNCHANGED otherThanMn

InitMain ==
    /\ InitWith(FALSE)
    /\ ng = NgIdle /\ crh = CrhIdle /\ rl = RlIdle
    /\ evh = EvhIdle /\ lsp = LspIdle /\ app = AppIdle /\ sig = SigIdle
    /\ vf = VfIdle /\ cx = CxIdle /\ srv = SrvIdle
    /\ mn = MnStart

NextMain ==
    \/ MnInterrupt
    \/ \E e \in Errors : MnRunReturn(e)
    \/ MnExit
    \/ MnReturn

SpecMain == InitMain /\ [][NextMain]_vars

\* C39: the process exits with status 1 exactly when main returned an
\* error that is not nil and whose root is not context.Canceled; a run that
\* ends with a cancellation error, wrapped or not, exits cleanly, also after
\* an interrupt.
C39_ExitOneIffNotCancelled ==
    mn.at = "exited" =>
        /\ mn.status \in {0, 1}
        /\ (mn.status = 1) <=>
               (mn.err # NilError /\ mn.err.root # "context.Canceled")
        /\ mn.printed <=> (mn.status = 1)

\* An interrupted run whose main returned a wrapped context.Canceled has
\* exited with status 0.
C39_Witness ==
    /\ mn.at = "exited"
    /\ mn.interrupted
    /\ mn.err.root = "context.Canceled"
    /\ mn.err.wraps # <<>>
    /\ mn.status = 0

====
